---- MODULE Spec2Model ----
(***************************************************************************)
(* Model of the xpra x264 encoder wrappers:                                *)
(*   src/src/xpra/x264/x264lib.c         (struct x264lib_ctx, adaptive     *)
(*                                        colour sampling with hysteresis) *)
(*   src/src/xpra/codecs/enc_x264/enc_x264.c  (struct enc_x264_ctx)        *)
(* One encoder context is alive at a time; ctx.impl tells which of the two *)
(* wrappers created it.  The native x264 library is modelled by the calls  *)
(* the wrapper makes on it (open / close / reconfig) and by the parameter  *)
(* set the live encoder holds.                                             *)
(***************************************************************************)
EXTENDS Integers, Sequences, FiniteSets, TLC

VARIABLES ctx, lib, call

vars == <<ctx, lib, call>>

(***************************************************************************)
(* Bounds and input sets                                                   *)
(***************************************************************************)
\* number of x264_encoder_open calls explored in one run
MaxOpens == 3

\* quality percentages passed to init_encoder / set_encoding_quality
QualityPcts == {-5, 65, 70, 71, 75, 80, 85, 90, 95, 150}

\* speed percentages passed to init_encoder / set_encoding_speed
SpeedPcts == {-1, 20, 100}

\* values passed for each of the four threshold arguments of init_encoder
ThresholdArgs == {-1, 70, 80, 90, 101}

\* supports_csc_option argument
CscOptions == {0, 1}

NULL == "NULL"

\* (i420_profile, i422_profile, i444_profile) arguments of init_encoder
ProfileArgs == { <<NULL, NULL, NULL>>, <<"high", "bogus", "">> }

\* colorspace and profile arguments of the enc_x264 init_encoder
ColorspaceArgs == {"YUV420P", "YUV444P", "BGRX", "XRGB"}
EncProfileArgs == {NULL, "", "high", "bogus"}

\* frame sizes
Dims == { <<640, 480>> }

(***************************************************************************)
(* C arithmetic                                                            *)
(***************************************************************************)
MAX(a, b) == IF a > b THEN a ELSE b
MIN(a, b) == IF a < b THEN a ELSE b

\* C integer division truncates towards zero
CDiv(a, b) == IF a >= 0 THEN a \div b ELSE -((-a) \div b)

\* (x & ~0x1) on a two's complement int: clears the lowest bit
ClearBit0(x) == 2 * (x \div 2)

(***************************************************************************)
(* x264 library constants (x264.h)                                         *)
(***************************************************************************)
X264_CSP_I420 == "I420"
X264_CSP_I422 == "I422"
X264_CSP_I444 == "I444"

PIX_FMT_YUV420P == "YUV420P"
PIX_FMT_YUV422P == "YUV422P"
PIX_FMT_YUV444P == "YUV444P"

x264_preset_names == <<"ultrafast", "superfast", "veryfast", "faster", "fast",
                       "medium", "slow", "slower", "veryslow", "placebo">>

\* x264_param_default_preset that applies the preset but no tune
x264_param_default_preset_notune(preset, tune) ==
    [ preset          |-> preset,
      tune            |-> NULL,
      profile         |-> NULL,
      i_threads       |-> 0,
      i_width         |-> 0,
      i_height        |-> 0,
      i_csp           |-> X264_CSP_I420,
      f_rf_constant   |-> 2300,
      i_keyint_max    |-> 250,
      i_keyint_min    |-> 0,
      b_intra_refresh |-> 0,
      b_open_gop      |-> 0 ]

\* x264_param_default_preset(&param, preset, "zerolatency") first resets the
\* whole parameter set to the library defaults, then applies preset and tune:
\* the caller's previous values of the fields below do not survive the call.
x264_param_default_preset(preset, tune) ==
    [ preset          |-> preset,
      tune            |-> tune,
      profile         |-> NULL,
      i_threads       |-> 0,
      i_width         |-> 0,
      i_height        |-> 0,
      i_csp           |-> X264_CSP_I420,
      f_rf_constant   |-> 2300,
      i_keyint_max    |-> 250,
      i_keyint_min    |-> 0,
      b_intra_refresh |-> 0,
      b_open_gop      |-> 0 ]

x264_param_apply_profile(param, profile) == [param EXCEPT !.profile = profile]

(***************************************************************************)
(* x264lib.c : pure helpers                                                *)
(***************************************************************************)
DEFAULT_INITIAL_QUALITY == 70
DEFAULT_INITIAL_SPEED == 20
DEFAULT_I422_MIN_QUALITY == 80
DEFAULT_I444_MIN_QUALITY == 90

PROFILE_BASELINE == "baseline"
PROFILE_MAIN == "main"
PROFILE_HIGH == "high"
PROFILE_HIGH10 == "high10"
PROFILE_HIGH422 == "high422"
PROFILE_HIGH444_PREDICTIVE == "high444"
I420_PROFILES == <<PROFILE_BASELINE, PROFILE_MAIN, PROFILE_HIGH, PROFILE_HIGH10,
                   PROFILE_HIGH422, PROFILE_HIGH444_PREDICTIVE>>
I422_PROFILES == <<PROFILE_HIGH422, PROFILE_HIGH444_PREDICTIVE>>
I444_PROFILES == <<PROFILE_HIGH444_PREDICTIVE>>
DEFAULT_I420_PROFILE == PROFILE_BASELINE
DEFAULT_I422_PROFILE == PROFILE_HIGH422
DEFAULT_I444_PROFILE == PROFILE_HIGH444_PREDICTIVE

\* the rate factor computed from the percentage as given, without clamping
get_x264_quality_unclamped(pct) == 5000 - pct * 49

\* rc.f_rf_constant in hundredths: 50.0 - clamp(pct,0,100) * 49.0 / 100.0
get_x264_quality(pct) == 5000 - MIN(100, MAX(0, pct)) * 49

\* get_x264_colour_sampling reading the "min" thresholds instead of the
\* "quality" ones
get_x264_colour_sampling_min(c, pct) ==
    IF c.supports_csc_option = 0 THEN X264_CSP_I420
    ELSE IF pct < c.I422_min THEN X264_CSP_I420
    ELSE IF pct < c.I444_min THEN X264_CSP_I422
    ELSE X264_CSP_I444

get_x264_colour_sampling(c, pct) ==
    IF c.supports_csc_option = 0 THEN X264_CSP_I420
    ELSE IF pct < c.I422_quality THEN X264_CSP_I420
    ELSE IF pct < c.I444_quality THEN X264_CSP_I422
    ELSE X264_CSP_I444

\* can_keep_colour_sampling without the "min" thresholds: a mode is kept only
\* while the quality selects it afresh
can_keep_colour_sampling_nomin(c, pct) ==
    IF c.supports_csc_option = 0 THEN c.colour_sampling = X264_CSP_I420
    ELSE IF c.colour_sampling = X264_CSP_I444 THEN pct >= c.I444_quality
    ELSE IF c.colour_sampling = X264_CSP_I422
         THEN pct >= c.I422_quality /\ pct <= c.I444_quality
    ELSE IF c.colour_sampling = X264_CSP_I420 THEN pct <= c.I422_quality
    ELSE TRUE

can_keep_colour_sampling(c, pct) ==
    IF c.supports_csc_option = 0 THEN c.colour_sampling = X264_CSP_I420
    ELSE IF c.colour_sampling = X264_CSP_I444 THEN pct >= c.I444_min
    ELSE IF c.colour_sampling = X264_CSP_I422
         THEN pct >= c.I422_min /\ pct <= c.I444_quality
    ELSE IF c.colour_sampling = X264_CSP_I420 THEN pct <= c.I422_quality
    ELSE TRUE

get_csc_format_for_x264_format(i_csp) ==
    IF i_csp = X264_CSP_I420 THEN PIX_FMT_YUV420P
    ELSE IF i_csp = X264_CSP_I422 THEN PIX_FMT_YUV422P
    ELSE IF i_csp = X264_CSP_I444 THEN PIX_FMT_YUV444P
    ELSE "invalid"

get_csc_algo_for_quality(initial_quality) == "SWS_BICUBLIN|SWS_ACCURATE_RND"

get_profile_for_quality(c, pct) ==
    IF pct < c.I422_quality THEN c.I420_profile
    ELSE IF pct < c.I444_quality THEN c.I422_profile
    ELSE c.I444_profile

InSeq(x, s) == \E i \in 1..Len(s) : s[i] = x

\* any non-NULL name accepted as it is, without looking it up
get_valid_profile_unchecked(csc_mode, profile, profiles, default_profile) ==
    IF profile = NULL THEN default_profile ELSE profile

get_valid_profile(csc_mode, profile, profiles, default_profile) ==
    IF profile = NULL THEN default_profile
    ELSE IF InSeq(profile, profiles) THEN profile
    ELSE default_profile

(***************************************************************************)
(* Native x264 library: the wrapper's calls on it                          *)
(*   w is a record [ctx, lib, native]: the context, the library state and  *)
(*   the native calls issued so far by the API call in progress.           *)
(***************************************************************************)
NoParam == [preset |-> NULL]

NoCtx == [impl |-> "none"]

NativeCall(fn, h, param) == [fn |-> fn, h |-> h, param |-> param]

\* returns a fresh encoder object holding the parameter set it was opened
\* with, or NULL (handle 0, nothing opened) when the library cannot open one
x264_encoder_open(w, param) ==
    IF w.lib.open_fails
    THEN [w EXCEPT !.native = Append(@, NativeCall("x264_encoder_open", 0, param))]
    ELSE LET h == w.lib.opens + 1 IN
         [w EXCEPT !.lib.opens = h, !.lib.live = h, !.lib.param = param,
                   !.native = Append(@, NativeCall("x264_encoder_open", h, param))]

x264_encoder_close(w, h) ==
    [w EXCEPT !.lib.live = 0, !.lib.param = NoParam,
              !.native = Append(@, NativeCall("x264_encoder_close", h, NoParam))]

\* x264_encoder_parameters: the parameter set the live encoder holds
x264_encoder_parameters(w) == w.lib.param

\* x264_encoder_reconfig applies the rate factor and the analysis settings of
\* the preset to the live encoder; the encoder object stays the same
x264_encoder_reconfig(w, h, param) ==
    [w EXCEPT !.lib.param.f_rf_constant = param.f_rf_constant,
              !.lib.param.preset = param.preset,
              !.native = Append(@, NativeCall("x264_encoder_reconfig", h, param))]

sws_getContext(w) == w.lib.sws + 1

(***************************************************************************)
(* x264lib.c : encoder context                                             *)
(***************************************************************************)
\* malloc + memset(ctx, 0, sizeof)
ZeroCtx ==
    [ impl |-> "x264lib",
      width |-> 0, height |-> 0, csc_format |-> 0,
      codec |-> 0, codec_ctx |-> 0, frame |-> 0, yuv2rgb |-> 0,
      encoder |-> 0, rgb2yuv |-> 0, use_swscale |-> 0,
      speed |-> 0, quality |-> 0, supports_csc_option |-> 0,
      encoding_preset |-> 0, x264_quality |-> 0, colour_sampling |-> 0,
      profile |-> NULL, preset |-> NULL, csc_algo |-> 0,
      I420_profile |-> NULL, I422_profile |-> NULL, I444_profile |-> NULL,
      I422_min |-> 0, I444_min |-> 0, I422_quality |-> 0, I444_quality |-> 0 ]

configure_I422_quality(I422_quality) ==
    IF I422_quality >= 0 /\ I422_quality <= 100 THEN I422_quality
    ELSE DEFAULT_I422_MIN_QUALITY

configure_I444_quality(I444_quality, c_I422_quality) ==
    IF I444_quality >= 0 /\ I444_quality <= 100 /\ I444_quality >= c_I422_quality
    THEN I444_quality
    ELSE MIN(100, MAX(DEFAULT_I444_MIN_QUALITY, c_I422_quality + 10))

configure_I422_min(I422_min, c_I422_quality) ==
    IF I422_min >= 0 /\ I422_min <= 100 /\ I422_min <= c_I422_quality
    THEN I422_min
    ELSE MAX(0, c_I422_quality - 10)

\* I444_min accepted without comparing it with I444_quality
configure_I444_min_unchecked(I444_min, c_I422_min, c_I444_quality) ==
    IF I444_min >= 0 /\ I444_min <= 100
    THEN I444_min
    ELSE MAX(0, MIN(c_I422_min, c_I444_quality - 10))

configure_I444_min(I444_min, c_I422_min, c_I444_quality) ==
    IF I444_min >= 0 /\ I444_min <= 100 /\ I444_min <= c_I444_quality
    THEN I444_min
    ELSE MAX(0, MIN(c_I422_min, c_I444_quality - 10))

configure_speed(initial_speed) ==
    IF initial_speed >= 0 THEN initial_speed ELSE DEFAULT_INITIAL_SPEED

\* the initial quality stored without the default for negative values
configure_quality_nodefault(initial_quality) == initial_quality

configure_quality(initial_quality) ==
    IF initial_quality >= 0 THEN initial_quality ELSE DEFAULT_INITIAL_QUALITY

configure_encoder(c, width, height, initial_quality, initial_speed, supports_csc_option, I422_quality, I444_quality, I422_min, I444_min, i420_profile, i422_profile, i444_profile) ==
    LET q422 == configure_I422_quality(I422_quality)
        q444 == configure_I444_quality(I444_quality, q422)
        m422 == configure_I422_min(I422_min, q422)
        m444 == configure_I444_min(I444_min, m422, q444)
    IN [c EXCEPT
          !.use_swscale = 1,
          !.width = width,
          !.height = height,
          !.speed = configure_speed(initial_speed),
          !.quality = configure_quality(initial_quality),
          !.supports_csc_option = supports_csc_option,
          !.I422_quality = q422,
          !.I444_quality = q444,
          !.I422_min = m422,
          !.I444_min = m444,
          !.I420_profile = get_valid_profile("I420", i420_profile, I420_PROFILES, DEFAULT_I420_PROFILE),
          !.I422_profile = get_valid_profile("I422", i422_profile, I422_PROFILES, DEFAULT_I422_PROFILE),
          !.I444_profile = get_valid_profile("I444", i444_profile, I444_PROFILES, DEFAULT_I444_PROFILE)]

\* frees the previous scaler, if any, and returns the world with a new one
init_encoder_csc(w) ==
    LET s == sws_getContext(w) IN
    [w EXCEPT !.lib.sws = s, !.ctx.rgb2yuv = s]

\* the parameter set do_init_encoder builds for x264_encoder_open
init_param(c) ==
    x264_param_apply_profile(
        [x264_param_default_preset(c.preset, "zerolatency") EXCEPT
            !.i_threads = 1,
            !.i_width = c.width,
            !.i_height = c.height,
            !.i_csp = c.colour_sampling,
            !.f_rf_constant = c.x264_quality,
            !.i_keyint_max = 999999,
            !.i_keyint_min = 999999,
            !.b_intra_refresh = 0,
            !.b_open_gop = 1],
        c.profile)

do_init_encoder(w) ==
    LET c  == w.ctx
        cs == get_x264_colour_sampling(c, c.quality)
        c1 == [c EXCEPT
                 !.colour_sampling = cs,
                 !.x264_quality = get_x264_quality(c.quality),
                 !.csc_format = get_csc_format_for_x264_format(cs),
                 !.encoding_preset = 2,
                 !.preset = x264_preset_names[2 + 1],
                 !.profile = get_profile_for_quality(c, c.quality),
                 !.csc_algo = get_csc_algo_for_quality(c.quality)]
        w1 == x264_encoder_open([w EXCEPT !.ctx = c1], init_param(c1))
        w2 == [w1 EXCEPT !.ctx.encoder = w1.lib.live]
    IN IF w2.ctx.use_swscale # 0 THEN init_encoder_csc(w2) ELSE w2

init_encoder(w, width, height, initial_quality, initial_speed, supports_csc_option, I422_quality, I444_quality, I422_min, I444_min, i420_profile, i422_profile, i444_profile) ==
    do_init_encoder([w EXCEPT !.ctx =
        configure_encoder(ZeroCtx, width, height, initial_quality, initial_speed,
                          supports_csc_option, I422_quality, I444_quality,
                          I422_min, I444_min, i420_profile, i422_profile, i444_profile)])

do_clean_encoder(w) ==
    LET w1 == IF w.ctx.rgb2yuv # 0 THEN [w EXCEPT !.ctx.rgb2yuv = 0] ELSE w
    IN IF w1.ctx.encoder # 0
       THEN [x264_encoder_close(w1, w1.ctx.encoder) EXCEPT !.ctx.encoder = 0]
       ELSE w1

speed_to_preset(pct) == 7 - MAX(0, MIN(6, CDiv(pct, 16)))

\* the parameter set set_encoding_speed builds for x264_encoder_reconfig
speed_param(c) ==
    x264_param_apply_profile(
        [x264_param_default_preset(x264_preset_names[c.encoding_preset + 1], "zerolatency")
            EXCEPT !.f_rf_constant = c.x264_quality],
        c.profile)

set_encoding_speed(w, pct) ==
    LET new_preset == speed_to_preset(pct)
        w1 == [w EXCEPT !.ctx.speed = pct]
    IN IF new_preset = w.ctx.encoding_preset THEN w1
       ELSE LET w2 == [w1 EXCEPT !.ctx.encoding_preset = new_preset]
            IN x264_encoder_reconfig(w2, w2.ctx.encoder, speed_param(w2.ctx))

\* lines 606-610: the colour sampling has to change
must_reinit(c, pct) ==
    /\ c.supports_csc_option # 0
    /\ ~can_keep_colour_sampling(c, pct)
    /\ c.colour_sampling # get_x264_colour_sampling(c, pct)

\* re-initialisation that forgets to store the new quality first
reinit_ctx_stale(c, pct) == c

\* lines 613-614: the new quality the re-initialised encoder starts from
reinit_ctx(c, pct) ==
    [c EXCEPT !.quality = pct, !.x264_quality = get_x264_quality(pct)]

\* the comparison of line 621 with the mask missing on pct
quality_changed_unmasked(quality, pct) == ClearBit0(quality) # pct

\* line 621: whether the rate factor has to be reconfigured
quality_changed(quality, pct) == ClearBit0(quality) # ClearBit0(pct)

\* the parameter set set_encoding_quality builds for x264_encoder_reconfig
quality_param(w, new_quality) ==
    [x264_encoder_parameters(w) EXCEPT !.f_rf_constant = new_quality]

set_encoding_quality(w, pct) ==
    LET old_csc_algo == w.ctx.csc_algo
        new_quality == get_x264_quality(pct)
    IN IF must_reinit(w.ctx, pct)
       THEN LET w1 == do_clean_encoder(w)
            IN do_init_encoder([w1 EXCEPT !.ctx = reinit_ctx(w1.ctx, pct)])
       ELSE LET w1 == IF quality_changed(w.ctx.quality, pct)
                      THEN LET param == quality_param(w, new_quality)
                               w0 == [w EXCEPT !.ctx.quality = pct,
                                               !.ctx.x264_quality = new_quality]
                           IN x264_encoder_reconfig(w0, w0.ctx.encoder, param)
                      ELSE w
                w2 == [w1 EXCEPT !.ctx.csc_algo = get_csc_algo_for_quality(pct)]
            IN IF old_csc_algo # w2.ctx.csc_algo THEN init_encoder_csc(w2) ELSE w2

(***************************************************************************)
(* enc_x264.c : encoder context                                            *)
(***************************************************************************)
X264_CSP_BGR == "BGR"
X264_CSP_BGRA == "BGRA"
X264_CSP_RGB == "RGB"
RGB_PROFILES == <<PROFILE_HIGH444_PREDICTIVE>>

x264_formats ==
    << [colorspace |-> X264_CSP_I420, str |-> "YUV420P",
        default_profile |-> PROFILE_HIGH, profiles |-> I420_PROFILES],
       [colorspace |-> X264_CSP_I422, str |-> "YUV422P",
        default_profile |-> PROFILE_HIGH422, profiles |-> I422_PROFILES],
       [colorspace |-> X264_CSP_I444, str |-> "YUV444P",
        default_profile |-> PROFILE_HIGH444_PREDICTIVE, profiles |-> I444_PROFILES],
       [colorspace |-> X264_CSP_BGR, str |-> "BGR",
        default_profile |-> PROFILE_HIGH444_PREDICTIVE, profiles |-> RGB_PROFILES],
       [colorspace |-> X264_CSP_BGRA, str |-> "BGRA",
        default_profile |-> PROFILE_HIGH444_PREDICTIVE, profiles |-> RGB_PROFILES],
       [colorspace |-> X264_CSP_BGRA, str |-> "BGRX",
        default_profile |-> PROFILE_HIGH444_PREDICTIVE, profiles |-> RGB_PROFILES],
       [colorspace |-> X264_CSP_RGB, str |-> "RGB",
        default_profile |-> PROFILE_HIGH444_PREDICTIVE, profiles |-> RGB_PROFILES] >>

NoFormat == [str |-> NULL]

\* first table entry whose name matches, NULL when there is none
get_x264_format(str) ==
    IF \E i \in 1..Len(x264_formats) : x264_formats[i].str = str
    THEN x264_formats[CHOOSE i \in 1..Len(x264_formats) :
                        /\ x264_formats[i].str = str
                        /\ \A j \in 1..(i-1) : x264_formats[j].str # str]
    ELSE NoFormat

enc_x264_get_valid_profile(csc_mode, profile, profiles, default_profile) ==
    IF profile = NULL \/ profile = "" THEN default_profile
    ELSE IF InSeq(profile, profiles) THEN profile
    ELSE default_profile

\* the mapping of x264lib.c (sixteenths, no case for speeds above 99)
get_preset_for_speed_div16(speed) == 7 - MAX(0, MIN(6, CDiv(speed, 16)))

get_preset_for_speed(speed) ==
    IF speed > 99 THEN 0
    ELSE 7 - MAX(0, MIN(6, CDiv(speed, 15)))

\* malloc + memset(ctx, 0, sizeof)
enc_x264_ZeroCtx ==
    [ impl |-> "enc_x264",
      width |-> 0, height |-> 0, x264_ctx |-> 0,
      speed |-> 0, quality |-> 0, encoding_preset |-> 0,
      color_sampling |-> 0, colorspace |-> NULL, profile |-> NULL ]

\* the context as configured; only meaningful when the format is known
enc_x264_configure_encoder(c, width, height, colorspace, profile, initial_quality, initial_speed) ==
    LET format == get_x264_format(colorspace) IN
    [c EXCEPT
        !.width = width,
        !.height = height,
        !.speed = initial_speed,
        !.quality = initial_quality,
        !.encoding_preset = get_preset_for_speed(initial_speed),
        !.colorspace = format.str,
        !.color_sampling = format.colorspace,
        !.profile = enc_x264_get_valid_profile(colorspace, profile,
                                               format.profiles, format.default_profile)]

\* the parameter set do_init_encoder builds for x264_encoder_open
enc_x264_init_param(c) ==
    x264_param_apply_profile(
        [x264_param_default_preset(x264_preset_names[c.encoding_preset + 1], "zerolatency")
            EXCEPT
            !.i_threads = 1,
            !.i_width = c.width,
            !.i_height = c.height,
            !.i_csp = c.color_sampling,
            !.f_rf_constant = get_x264_quality(c.quality),
            !.i_keyint_max = 999999,
            !.i_keyint_min = 999999,
            !.b_intra_refresh = 0,
            !.b_open_gop = 1],
        c.profile)

enc_x264_do_init_encoder(w) ==
    LET w1 == x264_encoder_open(w, enc_x264_init_param(w.ctx))
    IN [w1 EXCEPT !.ctx.x264_ctx = w1.lib.live]

\* returns the world with the new context, or with no context (NULL) when
\* configure_encoder rejects the colorspace and the struct is freed again
enc_x264_init_encoder(w, width, height, colorspace, profile, initial_quality, initial_speed) ==
    IF get_x264_format(colorspace) = NoFormat
    THEN [w EXCEPT !.ctx = NoCtx]
    ELSE enc_x264_do_init_encoder([w EXCEPT !.ctx =
            enc_x264_configure_encoder(enc_x264_ZeroCtx, width, height, colorspace,
                                       profile, initial_quality, initial_speed)])

\* the parameter set set_encoding_speed builds for x264_encoder_reconfig
enc_x264_speed_param(c) ==
    x264_param_apply_profile(
        [x264_param_default_preset(x264_preset_names[c.encoding_preset + 1], "zerolatency")
            EXCEPT !.f_rf_constant = get_x264_quality(c.quality)],
        c.profile)

enc_x264_set_encoding_speed(w, pct) ==
    LET new_preset == get_preset_for_speed(pct)
        w1 == [w EXCEPT !.ctx.speed = pct]
    IN IF new_preset = w.ctx.encoding_preset THEN w1
       ELSE LET w2 == [w1 EXCEPT !.ctx.encoding_preset = new_preset]
            IN x264_encoder_reconfig(w2, w2.ctx.x264_ctx, enc_x264_speed_param(w2.ctx))

enc_x264_set_encoding_quality(w, pct) ==
    IF quality_changed(w.ctx.quality, pct)
    THEN LET param == quality_param(w, get_x264_quality(pct))
             w1 == [w EXCEPT !.ctx.quality = pct]
         IN x264_encoder_reconfig(w1, w1.ctx.x264_ctx, param)
    ELSE w

(***************************************************************************)
(* State machine                                                           *)
(***************************************************************************)
World == [ctx |-> ctx, lib |-> lib, native |-> <<>>]

NoCall == [op |-> "none", arg |-> 0, repeat |-> FALSE, native |-> <<>>]

Returned(w, op, arg) ==
    /\ ctx' = w.ctx
    /\ lib' = w.lib
    /\ call' = [op |-> op, arg |-> arg,
                repeat |-> (call.op = op /\ call.arg = arg),
                native |-> w.native]

Init ==
    /\ ctx = NoCtx
    /\ lib = [opens |-> 0, live |-> 0, param |-> NoParam, sws |-> 0,
              open_fails |-> FALSE]
    /\ call = NoCall

\* the arguments of an init_encoder call, as logged in call.arg
InitArgs(q, s, o, q422, q444, m422, m444, p) ==
    [initial_quality |-> q, initial_speed |-> s, supports_csc_option |-> o,
     I422_quality |-> q422, I444_quality |-> q444,
     I422_min |-> m422, I444_min |-> m444, profiles |-> p]

InitEncoder ==
    /\ ctx = NoCtx
    /\ call.op = "none"
    /\ \E d \in Dims, q \in QualityPcts, s \in SpeedPcts, o \in CscOptions,
          q422 \in ThresholdArgs, q444 \in ThresholdArgs,
          m422 \in ThresholdArgs, m444 \in ThresholdArgs, p \in ProfileArgs :
          Returned(init_encoder(World, d[1], d[2], q, s, o, q422, q444, m422, m444,
                                p[1], p[2], p[3]),
                   "init_encoder", InitArgs(q, s, o, q422, q444, m422, m444, p))

SetEncodingSpeed ==
    /\ ctx.impl = "x264lib"
    /\ \E pct \in SpeedPcts :
          Returned(set_encoding_speed(World, pct), "set_encoding_speed", pct)

SetEncodingQuality ==
    /\ ctx.impl = "x264lib"
    /\ \E pct \in QualityPcts :
          LET w == set_encoding_quality(World, pct) IN
          /\ w.lib.opens <= MaxOpens
          /\ Returned(w, "set_encoding_quality", pct)

EncInitEncoder ==
    /\ ctx = NoCtx
    /\ call.op = "none"
    /\ \E d \in Dims, cs \in ColorspaceArgs, p \in EncProfileArgs,
          q \in QualityPcts, s \in SpeedPcts :
          Returned(enc_x264_init_encoder(World, d[1], d[2], cs, p, q, s),
                   "enc_x264_init_encoder",
                   [colorspace |-> cs, profile |-> p,
                    initial_quality |-> q, initial_speed |-> s])

EncSetEncodingSpeed ==
    /\ ctx.impl = "enc_x264"
    /\ \E pct \in SpeedPcts :
          Returned(enc_x264_set_encoding_speed(World, pct),
                   "enc_x264_set_encoding_speed", pct)

EncSetEncodingQuality ==
    /\ ctx.impl = "enc_x264"
    /\ \E pct \in QualityPcts :
          Returned(enc_x264_set_encoding_quality(World, pct),
                   "enc_x264_set_encoding_quality", pct)

Next ==
    \/ InitEncoder
    \/ SetEncodingSpeed
    \/ SetEncodingQuality
    \/ EncInitEncoder
    \/ EncSetEncodingSpeed
    \/ EncSetEncodingQuality

Spec == Init /\ [][Next]_vars

(***************************************************************************)
(* The speed interface over the whole percentage range: both wrappers are  *)
(* initialised with default arguments apart from the speed, then           *)
(* set_encoding_speed is called with any percentage.                       *)
(***************************************************************************)
\* largest speed percentage explored (the smallest is -2)
MaxSpeedPct == 102

WideSpeedPcts == -2..MaxSpeedPct

WideInitEncoder ==
    /\ ctx = NoCtx
    /\ call.op = "none"
    /\ \E d \in Dims, s \in WideSpeedPcts :
          Returned(init_encoder(World, d[1], d[2], -1, s, 1, -1, -1, -1, -1,
                                NULL, NULL, NULL),
                   "init_encoder",
                   InitArgs(-1, s, 1, -1, -1, -1, -1, <<NULL, NULL, NULL>>))

WideSetEncodingSpeed ==
    /\ ctx.impl = "x264lib"
    /\ \E pct \in WideSpeedPcts :
          Returned(set_encoding_speed(World, pct), "set_encoding_speed", pct)

WideEncInitEncoder ==
    /\ ctx = NoCtx
    /\ call.op = "none"
    /\ \E d \in Dims, s \in WideSpeedPcts :
          Returned(enc_x264_init_encoder(World, d[1], d[2], "YUV420P", NULL, -1, s),
                   "enc_x264_init_encoder",
                   [colorspace |-> "YUV420P", profile |-> NULL,
                    initial_quality |-> -1, initial_speed |-> s])

WideEncSetEncodingSpeed ==
    /\ ctx.impl = "enc_x264"
    /\ \E pct \in WideSpeedPcts :
          Returned(enc_x264_set_encoding_speed(World, pct),
                   "enc_x264_set_encoding_speed", pct)

SpeedNext ==
    \/ WideInitEncoder
    \/ WideSetEncodingSpeed
    \/ WideEncInitEncoder
    \/ WideEncSetEncodingSpeed

SpeedSpec == Init /\ [][SpeedNext]_vars

(***************************************************************************)
(* The quality interface over the whole percentage range: both wrappers    *)
(* are initialised with default arguments apart from the quality and the   *)
(* colour sampling option, then set_encoding_quality is called with any    *)
(* percentage.                                                             *)
(***************************************************************************)
\* largest quality percentage explored (the smallest is -3)
MaxQualityPct == 103

WideQualityPcts == -3..MaxQualityPct

WideQualityInitEncoder ==
    /\ ctx = NoCtx
    /\ call.op = "none"
    /\ \E d \in Dims, q \in WideQualityPcts, o \in CscOptions :
          Returned(init_encoder(World, d[1], d[2], q, -1, o, -1, -1, -1, -1,
                                NULL, NULL, NULL),
                   "init_encoder",
                   InitArgs(q, -1, o, -1, -1, -1, -1, <<NULL, NULL, NULL>>))

WideSetEncodingQuality ==
    /\ ctx.impl = "x264lib"
    /\ \E pct \in WideQualityPcts :
          LET w == set_encoding_quality(World, pct) IN
          /\ w.lib.opens <= MaxOpens
          /\ Returned(w, "set_encoding_quality", pct)

WideQualityEncInitEncoder ==
    /\ ctx = NoCtx
    /\ call.op = "none"
    /\ \E d \in Dims, q \in WideQualityPcts :
          Returned(enc_x264_init_encoder(World, d[1], d[2], "YUV420P", NULL, q, -1),
                   "enc_x264_init_encoder",
                   [colorspace |-> "YUV420P", profile |-> NULL,
                    initial_quality |-> q, initial_speed |-> -1])

WideEncSetEncodingQuality ==
    /\ ctx.impl = "enc_x264"
    /\ \E pct \in WideQualityPcts :
          Returned(enc_x264_set_encoding_quality(World, pct),
                   "enc_x264_set_encoding_quality", pct)

QualityNext ==
    \/ WideQualityInitEncoder
    \/ WideSetEncodingQuality
    \/ WideQualityEncInitEncoder
    \/ WideEncSetEncodingQuality

QualitySpec == Init /\ [][QualityNext]_vars

(***************************************************************************)
(* The profile arguments: both wrappers are initialised with any           *)
(* combination of profile names (missing, empty, unknown, legal for the    *)
(* sampling or legal for another sampling only), then the quality and the  *)
(* speed are changed.                                                      *)
(***************************************************************************)
ProfileNames == {NULL, "", "bogus", PROFILE_BASELINE, PROFILE_HIGH422,
                 PROFILE_HIGH444_PREDICTIVE}

\* qualities below, between and above the default thresholds 80 and 90
ProfileQualityPcts == {70, 85, 95}

ProfileInitEncoder ==
    /\ ctx = NoCtx
    /\ call.op = "none"
    /\ \E d \in Dims, q \in ProfileQualityPcts, o \in CscOptions,
          p420 \in ProfileNames, p422 \in ProfileNames, p444 \in ProfileNames :
          Returned(init_encoder(World, d[1], d[2], q, -1, o, -1, -1, -1, -1,
                                p420, p422, p444),
                   "init_encoder",
                   InitArgs(q, -1, o, -1, -1, -1, -1, <<p420, p422, p444>>))

ProfileSetEncodingQuality ==
    /\ ctx.impl = "x264lib"
    /\ \E pct \in ProfileQualityPcts :
          LET w == set_encoding_quality(World, pct) IN
          /\ w.lib.opens <= MaxOpens
          /\ Returned(w, "set_encoding_quality", pct)

ProfileEncInitEncoder ==
    /\ ctx = NoCtx
    /\ call.op = "none"
    /\ \E d \in Dims, cs \in ColorspaceArgs, p \in ProfileNames,
          q \in ProfileQualityPcts :
          Returned(enc_x264_init_encoder(World, d[1], d[2], cs, p, q, -1),
                   "enc_x264_init_encoder",
                   [colorspace |-> cs, profile |-> p,
                    initial_quality |-> q, initial_speed |-> -1])

ProfileEncSetEncodingQuality ==
    /\ ctx.impl = "enc_x264"
    /\ \E pct \in ProfileQualityPcts :
          Returned(enc_x264_set_encoding_quality(World, pct),
                   "enc_x264_set_encoding_quality", pct)

ProfileNext ==
    \/ ProfileInitEncoder
    \/ ProfileSetEncodingQuality
    \/ SetEncodingSpeed
    \/ ProfileEncInitEncoder
    \/ ProfileEncSetEncodingQuality
    \/ EncSetEncodingSpeed

ProfileSpec == Init /\ [][ProfileNext]_vars

(***************************************************************************)
(* Colourspace converters                                                  *)
(*   src/src/xpra/codecs/csc_nvcuda/csc_nvcuda.c   (struct csc_nvcuda_ctx) *)
(*   src/src/xpra/codecs/csc_swscale/csc_swscale.c (struct csc_swscale_ctx)*)
(* Here lib is [heap, cuda_initialized, inits]: heap counts the live       *)
(* allocations of each kind, cuda_initialized is the static flag of        *)
(* csc_nvcuda.c and inits counts the init_csc calls made.                  *)
(***************************************************************************)
\* number of init_csc calls explored in one run
MaxCscInits == 2

\* format names given to init_csc: names of either table and unknown ones
CscFormatArgs == {"RGB", "RGBA", "BGR", "BGRX", "XRGB", "YUV420P", "YUV422P",
                  "YUV444P", "bogus"}

\* speed hints given to the swscale init_csc
CscSpeedArgs == {0, 30, 75, 100, 101}

\* a value read from outside an array: whatever the memory there holds
GARBAGE == "garbage"

\* malloc / free of one object of the given kind
Alloc(heap, kind) == [heap EXCEPT ![kind] = @ + 1]
Free(heap, kind) == [heap EXCEPT ![kind] = @ - 1]

\* enum colorspace of csc_nvcuda.c
UNKNOWN == -1
RGB == 0
RGBA == 1
BGR == 2
BGRA == 3
YUV420P == 4
YUV422P == 5
YUV444P == 6

colorspaces ==
    << [cspace |-> RGB,     name |-> "RGB"],
       [cspace |-> RGBA,    name |-> "RGBA"],
       [cspace |-> BGR,     name |-> "BGR"],
       [cspace |-> BGRA,    name |-> "BGRX"],
       [cspace |-> YUV420P, name |-> "YUV420P"],
       [cspace |-> YUV422P, name |-> "YUV422P"],
       [cspace |-> YUV444P, name |-> "YUV444P"] >>

\* the NPP conversion function for each source colorspace RGB .. BGRA
NPP_dst_YUV444P == << "nppiRGBToYCbCr_8u_C3P3R", "nppiRGBToYCbCr_8u_AC4P3R", NULL, NULL >>
NPP_dst_YUV422P == << "nppiRGBToYCbCr422_8u_C3P3R", NULL,
                      "nppiBGRToYCbCr422_8u_C3P3R", "nppiBGRToYCbCr422_8u_AC4P3R" >>
NPP_dst_YUV420P == << "nppiRGBToYCbCr420_8u_C3P3R", NULL,
                      "nppiBGRToYCbCr420_8u_C3P3R", "nppiBGRToYCbCr420_8u_AC4P3R" >>

ARRAY_SIZE(X) == Len(X)

get_colorspace_by_name(str) ==
    IF str = NULL THEN UNKNOWN
    ELSE IF \E i \in 1..ARRAY_SIZE(colorspaces) : colorspaces[i].name = str
    THEN colorspaces[CHOOSE i \in 1..ARRAY_SIZE(colorspaces) : colorspaces[i].name = str].cspace
    ELSE UNKNOWN

\* the values ARR[i] can yield (C index, from 0): the element when i is inside
\* the array, otherwise whatever lies next to the array, NULL or not
ArrayRead(ARR, i) ==
    IF i >= 0 /\ i < Len(ARR) THEN {ARR[i + 1]} ELSE {NULL, GARBAGE}

\* the function pointers get_conversion_function_444 can return
get_conversion_function_444(src, dst) ==
    IF dst # YUV444P THEN {NULL}
    ELSE IF src >= ARRAY_SIZE(NPP_dst_YUV444P) THEN {NULL}
    ELSE ArrayRead(NPP_dst_YUV444P, src)

\* the function pointers get_conversion_function_subsampled can return
get_conversion_function_subsampled(src, dst) ==
    IF dst = YUV420P
    THEN IF src >= ARRAY_SIZE(NPP_dst_YUV420P) THEN {NULL}
         ELSE ArrayRead(NPP_dst_YUV420P, src)
    ELSE IF dst = YUV422P
    THEN IF src >= ARRAY_SIZE(NPP_dst_YUV422P) THEN {NULL}
         ELSE ArrayRead(NPP_dst_YUV422P, src)
    ELSE {NULL}

\* the conversion functions init_csc can find for the context's pair
csc_nvcuda_funcs(src, dst) ==
    IF dst = YUV444P THEN get_conversion_function_444(src, dst)
    ELSE get_conversion_function_subsampled(src, dst)

\* the native steps of the lookup: the array element read, when one is read
csc_nvcuda_lookup(src, dst) ==
    IF dst \in {YUV420P, YUV422P, YUV444P} /\ src < ARRAY_SIZE(NPP_dst_YUV444P)
    THEN << NativeCall("array_read", src, NoParam) >>
    ELSE << >>

\* init_csc of csc_nvcuda.c; malloc_ok, func and cuda_ok are the outcomes of
\* malloc, of the table lookup and of init_cuda (0 for success)
csc_nvcuda_init_csc(w, width, height, src_format_str, dst_format_str, malloc_ok, func, cuda_ok) ==
    IF ~malloc_ok THEN [w EXCEPT !.ctx = NoCtx]
    ELSE
    LET c == [impl |-> "csc_nvcuda", width |-> width, height |-> height,
              src_colorspace |-> get_colorspace_by_name(src_format_str),
              dst_colorspace |-> get_colorspace_by_name(dst_format_str)]
        w1 == [w EXCEPT !.lib.heap = Alloc(@, "csc_nvcuda_ctx"),
                        !.native = @ \o csc_nvcuda_lookup(c.src_colorspace,
                                                          c.dst_colorspace)]
        err == [w1 EXCEPT !.ctx = NoCtx, !.lib.heap = Free(@, "csc_nvcuda_ctx")]
    IN IF func = NULL THEN err
       ELSE IF w1.lib.cuda_initialized = 0
       THEN IF cuda_ok # 0 THEN err
            ELSE [w1 EXCEPT !.ctx = c, !.lib.cuda_initialized = 1]
       ELSE [w1 EXCEPT !.ctx = c]

\* csc_image of csc_nvcuda.c for a context c: the value it returns, and
\* whether it calls through a pointer that is no function; func is the
\* pointer its table lookup yields and cuda_ok tells whether every CUDA
\* runtime call and the NPP conversion succeed
csc_nvcuda_csc_image(c, func, cuda_ok) ==
    IF c = NoCtx THEN [ret |-> 1, crashed |-> FALSE]
    ELSE IF c.dst_colorspace \notin {YUV420P, YUV422P} THEN [ret |-> 1, crashed |-> FALSE]
    ELSE IF ~cuda_ok THEN [ret |-> 1, crashed |-> FALSE]
    ELSE IF func = NULL THEN [ret |-> 1, crashed |-> FALSE]
    ELSE IF func = GARBAGE THEN [ret |-> 1, crashed |-> TRUE]
    ELSE [ret |-> 0, crashed |-> FALSE]

\* free_csc of csc_nvcuda.c returns at once
csc_nvcuda_free_csc(w) == w

\* swscale pixel formats
PIX_FMT_NONE == "PIX_FMT_NONE"

\* width_mult and height_mult hold the table's float multipliers as counts
\* of halves: 6 for 3, 8 for 4, 2 for 1, 1 for 0.5
sws_formats ==
    << [sws_pixfmt |-> "PIX_FMT_RGB24",  str |-> "RGB",
        width_mult |-> <<6, 0, 0>>, height_mult |-> <<2, 0, 0>>],
       [sws_pixfmt |-> "PIX_FMT_BGR24",  str |-> "BGR",
        width_mult |-> <<6, 0, 0>>, height_mult |-> <<2, 0, 0>>],
       [sws_pixfmt |-> "PIX_FMT_0RGB",   str |-> "XRGB",
        width_mult |-> <<8, 0, 0>>, height_mult |-> <<2, 0, 0>>],
       [sws_pixfmt |-> "PIX_FMT_BGR0",   str |-> "BGRX",
        width_mult |-> <<8, 0, 0>>, height_mult |-> <<2, 0, 0>>],
       [sws_pixfmt |-> "PIX_FMT_ARGB",   str |-> "ARGB",
        width_mult |-> <<8, 0, 0>>, height_mult |-> <<2, 0, 0>>],
       [sws_pixfmt |-> "PIX_FMT_BGRA",   str |-> "BGRA",
        width_mult |-> <<8, 0, 0>>, height_mult |-> <<2, 0, 0>>],
       [sws_pixfmt |-> PIX_FMT_YUV420P,  str |-> "YUV420P",
        width_mult |-> <<2, 1, 1>>, height_mult |-> <<2, 1, 1>>],
       [sws_pixfmt |-> PIX_FMT_YUV422P,  str |-> "YUV422P",
        width_mult |-> <<2, 1, 1>>, height_mult |-> <<2, 2, 2>>],
       [sws_pixfmt |-> PIX_FMT_YUV444P,  str |-> "YUV444P",
        width_mult |-> <<2, 2, 2>>, height_mult |-> <<2, 2, 2>>],
       [sws_pixfmt |-> "PIX_FMT_GBRP",   str |-> "GBRP",
        width_mult |-> <<2, 2, 2>>, height_mult |-> <<2, 2, 2>>] >>

get_swscale_format(str) ==
    IF \E i \in 1..Len(sws_formats) : sws_formats[i].str = str
    THEN sws_formats[CHOOSE i \in 1..Len(sws_formats) : sws_formats[i].str = str].sws_pixfmt
    ELSE PIX_FMT_NONE

\* the speed scores of the swscale_flags table, in table order
swscale_flags ==
    << [flags |-> "SWS_BICUBIC|SWS_ACCURATE_RND",       speed |-> 30],
       [flags |-> "SWS_BICUBLIN|SWS_ACCURATE_RND",      speed |-> 50],
       [flags |-> "SWS_FAST_BILINEAR|SWS_ACCURATE_RND", speed |-> 70],
       [flags |-> "SWS_BICUBIC",                        speed |-> 80],
       [flags |-> "SWS_BICUBLIN",                       speed |-> 90],
       [flags |-> "SWS_FAST_BILINEAR",                  speed |-> 100] >>

\* (int)(n * mult) for a multiplier given in halves: the float product,
\* truncated towards zero
IntOfHalves(n, mult) == CDiv(n * mult, 2)

\* ALIGN4(X) == (((int)(X)+3)&~3), X already converted to int
ALIGN4(X) == 4 * ((X + 3) \div 4)

\* get_plane_dimensions of csc_swscale.c: the strides and plane heights, or
\* NoFormat when the format is not in the table
get_plane_dimensions(fmt, width, height) ==
    IF \A i \in 1..Len(sws_formats) : sws_formats[i].sws_pixfmt # fmt THEN NoFormat
    ELSE LET found == CHOOSE i \in 1..Len(sws_formats) :
                         /\ sws_formats[i].sws_pixfmt = fmt
                         /\ \A j \in 1..(i - 1) : sws_formats[j].sws_pixfmt # fmt
         IN [stride |-> [i \in 1..3 |->
                           ALIGN4(IntOfHalves(width, sws_formats[found].width_mult[i]))],
             plane_height |-> [i \in 1..3 |->
                           IntOfHalves(height, sws_formats[found].height_mult[i])]]

\* get_swscale_flags with <= in place of < in the loop test
get_swscale_flags_skipping(speed) ==
    LET below == { i \in 1..Len(swscale_flags) :
                     \A j \in 1..i : swscale_flags[j].speed <= speed }
    IN Cardinality(below)

\* the C index (from 0) get_swscale_flags stops at: the first entry whose
\* speed is not below the hint, or the table size when there is none
get_swscale_flags(speed) ==
    LET below == { i \in 1..Len(swscale_flags) :
                     \A j \in 1..i : swscale_flags[j].speed < speed }
    IN Cardinality(below)

\* init_csc of csc_swscale.c; malloc_ok and sws_ok are the outcomes of malloc
\* and of sws_getContext
csc_swscale_init_csc(w, src_width, src_height, src_format_str, dst_width, dst_height, dst_format_str, speed, malloc_ok, sws_ok) ==
    IF ~malloc_ok THEN [w EXCEPT !.ctx = NoCtx]
    ELSE
    LET c == [impl |-> "csc_swscale",
              src_width |-> src_width, src_height |-> src_height,
              src_format |-> get_swscale_format(src_format_str),
              dst_width |-> dst_width, dst_height |-> dst_height,
              dst_format |-> get_swscale_format(dst_format_str),
              flags |-> get_swscale_flags(speed),
              sws_ctx |-> 0]
        w1 == [w EXCEPT !.lib.heap = Alloc(@, "csc_swscale_ctx")]
        err == [w1 EXCEPT !.ctx = NoCtx, !.lib.heap = Free(@, "csc_swscale_ctx")]
    IN IF c.src_format = PIX_FMT_NONE \/ c.dst_format = PIX_FMT_NONE THEN err
       ELSE LET w2 == [w1 EXCEPT !.native = @ \o
                         << NativeCall("sws_getContext", c.flags, NoParam) >>]
            IN IF ~sws_ok THEN [err EXCEPT !.native = w2.native]
               ELSE [w2 EXCEPT !.ctx = [c EXCEPT !.sws_ctx = 1],
                               !.lib.heap = Alloc(@, "SwsContext")]

\* free_csc of csc_swscale.c: releases the scaler
csc_swscale_free_csc(w) ==
    IF w.ctx # NoCtx /\ w.ctx.sws_ctx # 0
    THEN [w EXCEPT !.lib.heap = Free(@, "SwsContext")]
    ELSE w

CscInit ==
    /\ ctx = NoCtx
    /\ lib = [heap |-> [k \in {"csc_nvcuda_ctx", "csc_swscale_ctx", "SwsContext"} |-> 0],
              cuda_initialized |-> 0, inits |-> 0]
    /\ call = NoCall

CountedInit(w) == [w EXCEPT !.lib.inits = @ + 1]

NvInitCsc ==
    /\ ctx = NoCtx
    /\ lib.inits < MaxCscInits
    /\ \E d \in Dims, src \in CscFormatArgs \cup {NULL}, dst \in CscFormatArgs,
          malloc_ok \in BOOLEAN, cuda_ok \in {0, 1} :
          \E func \in csc_nvcuda_funcs(get_colorspace_by_name(src),
                                        get_colorspace_by_name(dst)) :
             Returned(csc_nvcuda_init_csc(CountedInit(World), d[1], d[2], src, dst,
                                          malloc_ok, func, cuda_ok),
                      "csc_nvcuda_init_csc", [src |-> src, dst |-> dst])

SwsInitCsc ==
    /\ ctx = NoCtx
    /\ lib.inits < MaxCscInits
    /\ \E d \in Dims, src \in CscFormatArgs, dst \in CscFormatArgs,
          speed \in CscSpeedArgs, malloc_ok \in BOOLEAN, sws_ok \in BOOLEAN :
          Returned(csc_swscale_init_csc(CountedInit(World), d[1], d[2], src,
                                        d[1], d[2], dst, speed, malloc_ok, sws_ok),
                   "csc_swscale_init_csc", [src |-> src, dst |-> dst, speed |-> speed])

\* the caller is done with the context after free_csc
NvFreeCsc ==
    /\ ctx.impl = "csc_nvcuda"
    /\ Returned([csc_nvcuda_free_csc(World) EXCEPT !.ctx = NoCtx],
                "csc_nvcuda_free_csc", 0)

SwsFreeCsc ==
    /\ ctx.impl = "csc_swscale"
    /\ Returned([csc_swscale_free_csc(World) EXCEPT !.ctx = NoCtx],
                "csc_swscale_free_csc", 0)

NvCscImage ==
    /\ ctx.impl = "csc_nvcuda"
    /\ call.op = "csc_nvcuda_init_csc"
    /\ \E cuda_ok \in BOOLEAN :
       \E func \in csc_nvcuda_funcs(ctx.src_colorspace, ctx.dst_colorspace) :
          LET res == csc_nvcuda_csc_image(ctx, func, cuda_ok) IN
          Returned(IF res.crashed THEN [World EXCEPT !.ctx = [impl |-> "crashed"]]
                   ELSE World,
                   "csc_nvcuda_csc_image", [ret |-> res.ret, cuda_ok |-> cuda_ok])

CscNext ==
    \/ NvCscImage
    \/ NvInitCsc
    \/ SwsInitCsc
    \/ NvFreeCsc
    \/ SwsFreeCsc

CscSpec == CscInit /\ [][CscNext]_vars

(***************************************************************************)
(* Frames through the codecs: compress_image of both x264 wrappers.        *)
(* Here the world record also carries the call's results (ret, out,        *)
(* outsz) and the native encoder's output (frame_size, nals); lib also     *)
(* holds the heap, the picture the caller got from csc_image_rgb2yuv       *)
(* (pic, 0 for NULL), the frames still inside the native encoder (queue)   *)
(* and the caller's record of the frames whose compress_image call         *)
(* succeeded and of the packets those calls returned.                      *)
(***************************************************************************)
\* number of frames submitted in one run
MaxFrames == 3

\* the NULL output buffer: the packet of no frame
NoPacket == [frame |-> 0]

\* the process after dereferencing a NULL pointer
Crashed == [impl |-> "crashed"]

HeapKinds == {"x264_picture_t", "dec_avcodec_ctx", "x264lib_ctx", "vpx_context",
              "AVCodecContext", "AVFrame", "SwsContext", "vpx_codec",
              "vpx_image_t", "vpx_img_data"}

\* what x264_encoder_encode can do with a frame: an encoder tuned for zero
\* latency (no lookahead, no B-frames) fails or emits the frame's packet at
\* once; any other encoder may also keep the frame and emit nothing, or emit
\* the packet of the oldest frame it kept
EncodeOutcomes(w) ==
    IF w.lib.live = 0 THEN {"error"}
    ELSE IF w.lib.param.tune = "zerolatency" THEN {"error", "frame"}
    ELSE {"error", "frame", "buffered"}
            \cup (IF w.lib.queue # <<>> THEN {"delayed"} ELSE {})

x264_encoder_encode(w, h, frame, outcome) ==
    LET w1 == [w EXCEPT !.native = Append(@, NativeCall("x264_encoder_encode", h, NoParam))]
    IN IF outcome = "error" THEN [w1 EXCEPT !.frame_size = -1, !.nals = <<>>]
       ELSE IF outcome = "frame"
       THEN [w1 EXCEPT !.frame_size = 1, !.nals = << [frame |-> frame] >>]
       ELSE IF outcome = "buffered"
       THEN [w1 EXCEPT !.frame_size = 0, !.nals = <<>>,
                       !.lib.queue = Append(@, frame)]
       ELSE [w1 EXCEPT !.frame_size = 1, !.nals = << [frame |-> Head(w.lib.queue)] >>,
                       !.lib.queue = Append(Tail(@), frame)]

\* a call on a NULL native handle or picture ends the process
NullDeref(w, fn) ==
    [w EXCEPT !.ctx = Crashed, !.native = Append(@, NativeCall(fn, 0, NoParam))]

\* csc_image_rgb2yuv of x264lib.c: the picture of the frame, NULL without an
\* encoder or a scaler
csc_image_rgb2yuv(w, frame) ==
    IF w.ctx.encoder = 0 \/ w.ctx.rgb2yuv = 0
    THEN [w EXCEPT !.lib.pic = 0]
    ELSE [w EXCEPT !.lib.pic = frame, !.lib.heap = Alloc(@, "x264_picture_t")]

\* x264_picture_clean + free
free_csc_image(w, image) ==
    IF image = 0 THEN NullDeref(w, "x264_picture_clean")
    ELSE [w EXCEPT !.lib.heap = Free(@, "x264_picture_t")]

\* compress_image of x264lib.c
compress_image(w, pic_in, outcome) ==
    IF w.ctx.encoder = 0 \/ w.ctx.rgb2yuv = 0
    THEN LET w1 == free_csc_image(w, pic_in)
         IN IF w1.ctx = Crashed THEN w1
            ELSE [w1 EXCEPT !.out = NoPacket, !.outsz = 0, !.ret = 1]
    ELSE IF pic_in = 0 THEN NullDeref(w, "pic_in->i_pts")
    ELSE LET w1 == x264_encoder_encode(w, w.ctx.encoder, pic_in, outcome)
             w2 == free_csc_image(w1, pic_in)
         IN IF w2.frame_size < 0
            THEN [w2 EXCEPT !.out = NoPacket, !.outsz = 0, !.ret = 2]
            ELSE IF w2.nals = <<>> THEN NullDeref(w2, "nals[0]")
            ELSE [w2 EXCEPT !.out = w2.nals[1], !.outsz = w2.frame_size, !.ret = 0]

\* compress_image of enc_x264.c
enc_x264_compress_image(w, frame, outcome) ==
    IF w.ctx.x264_ctx = 0 THEN NullDeref(w, "x264_encoder_encode")
    ELSE LET w1 == x264_encoder_encode(w, w.ctx.x264_ctx, frame, outcome)
         IN IF w1.frame_size < 0
            THEN [w1 EXCEPT !.out = NoPacket, !.outsz = 0, !.ret = 2]
            ELSE IF w1.nals = <<>> THEN NullDeref(w1, "nals[0]")
            ELSE [w1 EXCEPT !.out = w1.nals[1], !.outsz = w1.frame_size, !.ret = 0]

\* csc_image_rgb2yuv of vpx/vpxlib.c: the image of the frame; malloc_ok and
\* img_alloc_ok are the outcomes of malloc and vpx_img_alloc
vpx_csc_image_rgb2yuv(w, frame, malloc_ok, img_alloc_ok) ==
    IF ~malloc_ok THEN [w EXCEPT !.lib.pic = 0]
    ELSE LET w1 == [w EXCEPT !.lib.heap = Alloc(@, "vpx_image_t")] IN
         IF ~img_alloc_ok THEN [w1 EXCEPT !.lib.pic = 0]
         ELSE [w1 EXCEPT !.lib.pic = frame, !.lib.heap = Alloc(@, "vpx_img_data")]

\* vpx_img_free of libvpx on an image whose container the caller allocated:
\* the pixel data is freed, the container is not
vpx_img_free(w) == [w EXCEPT !.lib.heap = Free(@, "vpx_img_data")]

\* what vpx_codec_encode and vpx_codec_get_cx_data can do with an image
VpxEncodeOutcomes == {"error", "no_packet", "other_packet", "frame"}

\* compress_image of vpx/vpxlib.c
vpx_compress_image(w, image, outcome) ==
    IF image = 0 THEN NullDeref(w, "image->x_chroma_shift")
    ELSE LET w1 == [w EXCEPT !.native =
                       Append(@, NativeCall("vpx_codec_encode", w.ctx.codec, NoParam))]
         IN IF outcome = "error"
            THEN [vpx_img_free(w1) EXCEPT !.ret = 1]
            ELSE IF outcome = "no_packet" THEN NullDeref(w1, "pkt->kind")
            ELSE IF outcome = "other_packet"
            THEN [vpx_img_free(w1) EXCEPT !.ret = 1]
            ELSE [vpx_img_free(w1) EXCEPT !.out = [frame |-> image], !.outsz = 1,
                                         !.ret = 0]

\* dec_avcodec.c: string format name <-> pixel format
dec_avcodec_sws_formats ==
    << [pixfmt |-> PIX_FMT_YUV420P, str |-> "YUV420P"],
       [pixfmt |-> PIX_FMT_YUV422P, str |-> "YUV422P"],
       [pixfmt |-> PIX_FMT_YUV444P, str |-> "YUV444P"],
       [pixfmt |-> "PIX_FMT_RGB24", str |-> "RGB"],
       [pixfmt |-> "PIX_FMT_0RGB",  str |-> "XRGB"],
       [pixfmt |-> "PIX_FMT_BGR0",  str |-> "BGRX"],
       [pixfmt |-> "PIX_FMT_ARGB",  str |-> "ARGB"],
       [pixfmt |-> "PIX_FMT_BGRA",  str |-> "BGRA"],
       [pixfmt |-> "PIX_FMT_GBRP",  str |-> "GBRP"] >>

dec_avcodec_get_swscale_format(str) ==
    LET T == dec_avcodec_sws_formats IN
    IF \E i \in 1..Len(T) : T[i].str = str
    THEN T[CHOOSE i \in 1..Len(T) : T[i].str = str /\ \A j \in 1..(i-1) : T[j].str # str].pixfmt
    ELSE PIX_FMT_NONE

dec_avcodec_get_string_format(pixfmt) ==
    LET T == dec_avcodec_sws_formats IN
    IF \E i \in 1..Len(T) : T[i].pixfmt = pixfmt
    THEN T[CHOOSE i \in 1..Len(T) :
              T[i].pixfmt = pixfmt /\ \A j \in 1..(i-1) : T[j].pixfmt # pixfmt].str
    ELSE "unknown"

\* the native call of an init function that fails, "none" when all succeed
DecInitFailures == {"none", "malloc", "avcodec_find_decoder", "avcodec_alloc_context3",
                    "avcodec_open2", "avcodec_alloc_frame"}

\* clean_decoder of dec_avcodec.c: frees the frame and the codec context
dec_avcodec_clean_decoder(w) ==
    LET w1 == IF w.ctx.frame # 0
              THEN [w EXCEPT !.ctx.frame = 0, !.lib.heap = Free(@, "AVFrame")]
              ELSE w
    IN IF w1.ctx.codec_ctx # 0
       THEN [w1 EXCEPT !.ctx.codec_ctx = 0, !.lib.heap = Free(@, "AVCodecContext")]
       ELSE w1

\* what init_decoder returns as NULL: the caller gets no context, whatever
\* the struct still holds
ReturnNULL(w) == [w EXCEPT !.ctx = NoCtx]

\* init_decoder of dec_avcodec.c; fail names the native call that fails
dec_avcodec_init_decoder(w, width, height, colorspace, fail) ==
    LET pix_fmt == dec_avcodec_get_swscale_format(colorspace) IN
    IF pix_fmt = PIX_FMT_NONE THEN ReturnNULL(w)
    ELSE IF fail = "malloc" THEN ReturnNULL(w)
    ELSE
    LET c0 == [impl |-> "dec_avcodec", width |-> width, height |-> height,
               codec |-> 0, codec_ctx |-> 0, frame |-> 0, pixfmt |-> pix_fmt]
        w0 == [w EXCEPT !.ctx = c0, !.lib.heap = Alloc(@, "dec_avcodec_ctx")]
    IN IF fail = "avcodec_find_decoder" THEN ReturnNULL(w0)
       ELSE
       LET w1 == [w0 EXCEPT !.ctx.codec = 1] IN
       IF fail = "avcodec_alloc_context3" THEN ReturnNULL(dec_avcodec_clean_decoder(w1))
       ELSE
       LET w2 == [w1 EXCEPT !.ctx.codec_ctx = 1, !.lib.heap = Alloc(@, "AVCodecContext")] IN
       IF fail = "avcodec_open2" THEN ReturnNULL(dec_avcodec_clean_decoder(w2))
       ELSE IF fail = "avcodec_alloc_frame" THEN ReturnNULL(dec_avcodec_clean_decoder(w2))
       ELSE [w2 EXCEPT !.ctx.frame = 1, !.lib.heap = Alloc(@, "AVFrame")]

\* the context with the pixel format of the decoded picture
update_pixfmt_stale(c, format) == c

update_pixfmt(c, format) == [c EXCEPT !.pixfmt = format]

\* a decompress_image call that returns an error code and, too, forgets the
\* pixel format
decode_failed_resetting(w, code) == [w EXCEPT !.ret = code, !.ctx.pixfmt = PIX_FMT_NONE]

\* a decompress_image call that returns an error code
decode_failed(w, code) == [w EXCEPT !.ret = code]

\* what avcodec_decode_video2 / vpx_codec_decode can do with a packet
DecodeOutcomes(formats) ==
    { [kind |-> "error", format |-> PIX_FMT_NONE],
      [kind |-> "empty", format |-> PIX_FMT_NONE] }
      \cup { [kind |-> "picture", format |-> f] : f \in formats }

\* pixel formats of the pictures the H.264 decoder hands back
AvFormats == {PIX_FMT_YUV420P, PIX_FMT_YUV422P, PIX_FMT_YUV444P, "PIX_FMT_YUVJ420P"}

\* decompress_image of dec_avcodec.c
dec_avcodec_decompress_image(w, outcome) ==
    IF w.ctx.codec_ctx = 0 \/ w.ctx.codec = 0 THEN decode_failed(w, 1)
    ELSE LET w1 == [w EXCEPT !.native =
                       Append(@, NativeCall("avcodec_decode_video2", w.ctx.codec_ctx, NoParam))]
         IN IF outcome.kind = "error" THEN decode_failed(w1, 2)
            ELSE IF outcome.kind = "empty" THEN decode_failed(w1, 3)
            ELSE [w1 EXCEPT !.ctx = update_pixfmt(@, outcome.format), !.ret = 0]

dec_avcodec_get_colorspace(c) == dec_avcodec_get_string_format(c.pixfmt)

\* the caller's pointer to a context struct that has been freed
Dangling == [impl |-> "dangling"]

\* where a second free of the same struct can lead: the allocator aborts the
\* process, or its heap is corrupted and the process goes on
DoubleFreeOutcomes == {Crashed, [impl |-> "heap_corrupted"]}

\* clean_encoder of x264lib.c: do_clean_encoder, then free(ctx)
clean_encoder(w) ==
    [do_clean_encoder(w) EXCEPT !.lib.heap = Free(@, "x264lib_ctx"), !.ctx = Dangling]

\* do_clean_decoder of x264lib.c
do_clean_decoder(w) ==
    LET d1 == IF w.ctx.frame # 0
              THEN [w EXCEPT !.ctx.frame = 0, !.lib.heap = Free(@, "AVFrame")]
              ELSE w
        d2 == IF d1.ctx.codec_ctx # 0
              THEN [d1 EXCEPT !.ctx.codec_ctx = 0, !.lib.heap = Free(@, "AVCodecContext")]
              ELSE d1
    IN IF d2.ctx.yuv2rgb # 0
       THEN [d2 EXCEPT !.ctx.yuv2rgb = 0, !.lib.heap = Free(@, "SwsContext")]
       ELSE d2

\* clean_decoder of x264lib.c: do_clean_decoder, then free(ctx)
clean_decoder(w) ==
    [do_clean_decoder(w) EXCEPT !.lib.heap = Free(@, "x264lib_ctx"), !.ctx = Dangling]

\* free(ctx) by the caller, as encode and decode of testlib.c do after
\* clean_encoder / clean_decoder; kind is the struct's type and outcome the
\* result of freeing a struct that is already freed
caller_free(w, kind, outcome) ==
    IF w.ctx = Dangling THEN [w EXCEPT !.ctx = outcome]
    ELSE [w EXCEPT !.lib.heap = Free(@, kind), !.ctx = NoCtx]

\* init_decoder of x264lib.c; csc_fmt "negative" stands for any value below 0
init_decoder(w, width, height, use_swscale, csc_fmt, fail) ==
    IF fail = "malloc" THEN ReturnNULL(w)
    ELSE
    LET fmt == IF csc_fmt = "negative" THEN PIX_FMT_YUV420P ELSE csc_fmt
        c0 == [ZeroCtx EXCEPT !.impl = "x264lib_decoder",
                 !.use_swscale = use_swscale, !.width = width, !.height = height,
                 !.csc_format = fmt, !.csc_algo = get_csc_algo_for_quality(100)]
        w0 == [w EXCEPT !.ctx = c0, !.lib.heap = Alloc(@, "x264lib_ctx")]
        w1 == IF use_swscale # 0
              THEN [w0 EXCEPT !.ctx.yuv2rgb = 1, !.lib.heap = Alloc(@, "SwsContext")]
              ELSE w0
        w2 == IF fail = "avcodec_find_decoder" THEN w1
              ELSE [w1 EXCEPT !.ctx.codec = 1]
        w3 == IF fail \in {"avcodec_find_decoder", "avcodec_alloc_context3"} THEN w2
              ELSE [w2 EXCEPT !.ctx.codec_ctx = 1, !.lib.heap = Alloc(@, "AVCodecContext")]
        w4 == IF fail = "none"
              THEN [w3 EXCEPT !.ctx.frame = 1, !.lib.heap = Alloc(@, "AVFrame")]
              ELSE w3
    IN IF fail = "none" THEN w4
       ELSE ReturnNULL(clean_decoder(w4))

\* vpxlib.c: string format name <-> vpx format
VPX_IMG_FMT_NONE == "VPX_IMG_FMT_NONE"
VPX_IMG_FMT_I420 == "VPX_IMG_FMT_I420"

vpx_formats == << [colorspace |-> VPX_IMG_FMT_I420, str |-> "YUV420P"] >>

\* -1 converted to vpx_img_fmt_t when the name is unknown
VPX_MINUS_ONE == "(vpx_img_fmt_t)-1"

get_vpx_colorspace(str) ==
    IF \E i \in 1..Len(vpx_formats) : vpx_formats[i].str = str
    THEN vpx_formats[CHOOSE i \in 1..Len(vpx_formats) : vpx_formats[i].str = str].colorspace
    ELSE VPX_MINUS_ONE

vpx_get_string_format(pixfmt) ==
    IF \E i \in 1..Len(vpx_formats) : vpx_formats[i].colorspace = pixfmt
    THEN vpx_formats[CHOOSE i \in 1..Len(vpx_formats) :
                        vpx_formats[i].colorspace = pixfmt].str
    ELSE "ERROR"

VpxInitFailures == {"none", "vpx_codec_enc_config_default", "malloc", "vpx_codec_enc_init"}

\* init_encoder of vpxlib.c; enum_signed tells whether the build gives the
\* enum vpx_img_fmt_t a signed type, so that (vpx_colorspace < 0) can hold
vpx_init_encoder(w, width, height, colorspace, enum_signed, fail) ==
    LET vpx_colorspace == get_vpx_colorspace(colorspace) IN
    IF vpx_colorspace = VPX_MINUS_ONE /\ enum_signed THEN ReturnNULL(w)
    ELSE IF fail = "vpx_codec_enc_config_default" THEN ReturnNULL(w)
    ELSE IF fail = "malloc" THEN ReturnNULL(w)
    ELSE LET w1 == [w EXCEPT !.lib.heap = Alloc(@, "vpx_context")] IN
         IF fail = "vpx_codec_enc_init"
         THEN ReturnNULL([w1 EXCEPT !.lib.heap = Free(@, "vpx_context")])
         ELSE [w1 EXCEPT !.lib.heap = Alloc(@, "vpx_codec"),
                         !.ctx = [impl |-> "vpx_encoder", codec |-> 1, width |-> width,
                                  height |-> height, pixfmt |-> vpx_colorspace]]

\* init_decoder of vpxlib.c: the colorspace argument is not used
vpx_init_decoder(w, width, height, colorspace, fail) ==
    IF fail = "malloc" THEN ReturnNULL(w)
    ELSE LET w1 == [w EXCEPT !.lib.heap = Alloc(@, "vpx_context")] IN
         IF fail = "vpx_codec_dec_init"
         THEN ReturnNULL([w1 EXCEPT !.lib.heap = Free(@, "vpx_context")])
         ELSE [w1 EXCEPT !.lib.heap = Alloc(@, "vpx_codec"),
                         !.ctx = [impl |-> "vpx_decoder", codec |-> 1, width |-> width,
                                  height |-> height, pixfmt |-> VPX_IMG_FMT_NONE]]

\* image formats of the frames the VP8 decoder hands back
VpxFormats == {VPX_IMG_FMT_I420, "VPX_IMG_FMT_YV12"}

\* decompress_image of vpxlib.c
vpx_decompress_image(w, outcome) ==
    LET w1 == [w EXCEPT !.native =
                  Append(@, NativeCall("vpx_codec_decode", w.ctx.codec, NoParam))]
    IN IF outcome.kind = "error" THEN decode_failed(w1, -1)
       ELSE IF outcome.kind = "empty" THEN decode_failed(w1, -1)
       ELSE [w1 EXCEPT !.ctx = update_pixfmt(@, outcome.format), !.ret = 0]

vpx_get_colorspace(c) == vpx_get_string_format(c.pixfmt)

CodecWorld ==
    [ctx |-> ctx, lib |-> lib, native |-> <<>>,
     ret |-> 0, out |-> NoPacket, outsz |-> 0, frame_size |-> 0, nals |-> <<>>]

CodecNoCall ==
    [op |-> "none", arg |-> 0, repeat |-> FALSE, native |-> <<>>,
     ret |-> 0, out |-> NoPacket, outsz |-> 0,
     prev |-> [op |-> "none", arg |-> 0, ret |-> 0]]

CodecReturned(w, op, arg) ==
    /\ ctx' = w.ctx
    /\ lib' = w.lib
    /\ call' = [op |-> op, arg |-> arg,
                repeat |-> (call.op = op /\ call.arg = arg),
                native |-> w.native,
                ret |-> w.ret, out |-> w.out, outsz |-> w.outsz,
                prev |-> [op |-> call.op, arg |-> call.arg, ret |-> call.ret]]

\* the caller notes the frame of each compress_image call that returned 0 and
\* the packet it was handed
Noted(w, frame) ==
    IF w.ctx # Crashed /\ w.ret = 0
    THEN [w EXCEPT !.lib.succeeded = Append(@, frame),
                   !.lib.delivered = Append(@, [packet |-> w.out, outsz |-> w.outsz])]
    ELSE w

CodecInit ==
    /\ ctx = NoCtx
    /\ \E f \in BOOLEAN :
          lib = [opens |-> 0, live |-> 0, param |-> NoParam, sws |-> 0,
                 open_fails |-> f,
                 heap |-> [k \in HeapKinds |-> 0],
                 frames |-> 0, pic |-> 0, queue |-> <<>>,
                 succeeded |-> <<>>, delivered |-> <<>>]
    /\ call = CodecNoCall

\* the context struct is allocated by init_encoder (malloc)
CodecInitEncoder ==
    /\ ctx = NoCtx
    /\ call.op = "none"
    /\ \E d \in Dims, q \in {70, 95}, s \in SpeedPcts :
          CodecReturned([init_encoder(CodecWorld, d[1], d[2], q, s, 1, -1, -1, -1, -1,
                                      NULL, NULL, NULL)
                            EXCEPT !.lib.heap = Alloc(@, "x264lib_ctx")],
                        "init_encoder",
                        InitArgs(q, s, 1, -1, -1, -1, -1, <<NULL, NULL, NULL>>))

CodecEncInitEncoder ==
    /\ ctx = NoCtx
    /\ call.op = "none"
    /\ \E d \in Dims, cs \in {"YUV420P", "bogus"}, s \in SpeedPcts :
          CodecReturned(enc_x264_init_encoder(CodecWorld, d[1], d[2], cs, NULL, 70, s),
                        "enc_x264_init_encoder",
                        [colorspace |-> cs, profile |-> NULL,
                         initial_quality |-> 70, initial_speed |-> s])

CscImageRgb2yuv ==
    /\ ctx.impl = "x264lib"
    /\ lib.pic = 0
    /\ lib.frames < MaxFrames
    /\ LET frame == lib.frames + 1 IN
       CodecReturned(csc_image_rgb2yuv([CodecWorld EXCEPT !.lib.frames = frame], frame),
                     "csc_image_rgb2yuv", frame)

\* compress_image is given the picture of the preceding csc_image_rgb2yuv call
CompressImage ==
    /\ ctx.impl = "x264lib"
    /\ call.op = "csc_image_rgb2yuv"
    /\ \E outcome \in EncodeOutcomes(CodecWorld) :
          CodecReturned(Noted([compress_image(CodecWorld, lib.pic, outcome)
                                  EXCEPT !.lib.pic = 0], lib.pic),
                        "compress_image", [frame |-> lib.pic, native |-> outcome])

EncCompressImage ==
    /\ ctx.impl = "enc_x264"
    /\ lib.frames < MaxFrames
    /\ LET frame == lib.frames + 1 IN
       \E outcome \in EncodeOutcomes(CodecWorld) :
          CodecReturned(Noted(enc_x264_compress_image(
                                  [CodecWorld EXCEPT !.lib.frames = frame], frame, outcome),
                              frame),
                        "enc_x264_compress_image", [frame |-> frame, native |-> outcome])

CodecSetEncodingSpeed ==
    /\ ctx.impl = "x264lib"
    /\ call.op # "csc_image_rgb2yuv"
    /\ \E pct \in SpeedPcts :
          CodecReturned(IF ctx.encoder = 0
                        THEN NullDeref(CodecWorld, "x264_encoder_parameters")
                        ELSE set_encoding_speed(CodecWorld, pct),
                        "set_encoding_speed", pct)

CodecEncSetEncodingSpeed ==
    /\ ctx.impl = "enc_x264"
    /\ \E pct \in SpeedPcts :
          CodecReturned(IF ctx.x264_ctx = 0 /\ get_preset_for_speed(pct) # ctx.encoding_preset
                        THEN NullDeref(CodecWorld, "x264_encoder_parameters")
                        ELSE enc_x264_set_encoding_speed(CodecWorld, pct),
                        "enc_x264_set_encoding_speed", pct)

\* number of decompress_image calls explored in one run
MaxPackets == 3

DecInitDecoder ==
    /\ ctx = NoCtx
    /\ call.op = "none"
    /\ \E d \in Dims, cs \in {"YUV420P", "YUV444P", "BGRX", "bogus"},
          fail \in DecInitFailures :
          CodecReturned(dec_avcodec_init_decoder(CodecWorld, d[1], d[2], cs, fail),
                        "dec_avcodec_init_decoder", [colorspace |-> cs, fail |-> fail])

DecDecompressImage ==
    /\ ctx.impl = "dec_avcodec"
    /\ lib.frames < MaxPackets
    /\ \E outcome \in DecodeOutcomes(AvFormats) :
          CodecReturned(dec_avcodec_decompress_image(
                            [CodecWorld EXCEPT !.lib.frames = @ + 1], outcome),
                        "dec_avcodec_decompress_image", outcome)

\* clean_decoder leaves the struct to the caller, who may still use it
DecCleanDecoder ==
    /\ ctx.impl = "dec_avcodec"
    /\ ctx.codec_ctx # 0
    /\ CodecReturned(dec_avcodec_clean_decoder(CodecWorld),
                     "dec_avcodec_clean_decoder", 0)

X264libInitDecoder ==
    /\ ctx = NoCtx
    /\ call.op = "none"
    /\ \E d \in Dims, use_swscale \in {0, 1}, csc_fmt \in {"negative", PIX_FMT_YUV422P},
          fail \in DecInitFailures :
          CodecReturned(init_decoder(CodecWorld, d[1], d[2], use_swscale, csc_fmt, fail),
                        "init_decoder",
                        [use_swscale |-> use_swscale, csc_fmt |-> csc_fmt, fail |-> fail])

VpxInitEncoder ==
    /\ ctx = NoCtx
    /\ call.op = "none"
    /\ \E d \in Dims, cs \in {"YUV420P", "bogus"}, enum_signed \in BOOLEAN,
          fail \in VpxInitFailures :
          CodecReturned(vpx_init_encoder(CodecWorld, d[1], d[2], cs, enum_signed, fail),
                        "vpx_init_encoder",
                        [colorspace |-> cs, enum_signed |-> enum_signed, fail |-> fail])

VpxInitDecoder ==
    /\ ctx = NoCtx
    /\ call.op = "none"
    /\ \E d \in Dims, cs \in {"YUV420P", "bogus"},
          fail \in {"none", "malloc", "vpx_codec_dec_init"} :
          CodecReturned(vpx_init_decoder(CodecWorld, d[1], d[2], cs, fail),
                        "vpx_init_decoder", [colorspace |-> cs, fail |-> fail])

VpxDecompressImage ==
    /\ ctx.impl = "vpx_decoder"
    /\ lib.frames < MaxPackets
    /\ \E outcome \in DecodeOutcomes(VpxFormats) :
          CodecReturned(vpx_decompress_image(
                            [CodecWorld EXCEPT !.lib.frames = @ + 1], outcome),
                        "vpx_decompress_image", outcome)

VpxCscImageRgb2yuv ==
    /\ ctx.impl = "vpx_encoder"
    /\ lib.pic = 0
    /\ call.op # "vpx_csc_image_rgb2yuv"
    /\ lib.frames < MaxFrames
    /\ LET frame == lib.frames + 1 IN
       \E malloc_ok \in BOOLEAN, img_alloc_ok \in BOOLEAN :
          CodecReturned(vpx_csc_image_rgb2yuv([CodecWorld EXCEPT !.lib.frames = frame],
                                              frame, malloc_ok, img_alloc_ok),
                        "vpx_csc_image_rgb2yuv", frame)

\* compress_image is given the image of the preceding csc_image_rgb2yuv call
VpxCompressImage ==
    /\ ctx.impl = "vpx_encoder"
    /\ call.op = "vpx_csc_image_rgb2yuv"
    /\ \E outcome \in VpxEncodeOutcomes :
          CodecReturned([vpx_compress_image(CodecWorld, lib.pic, outcome)
                            EXCEPT !.lib.pic = 0],
                        "vpx_compress_image", [frame |-> lib.pic, native |-> outcome])

CodecCleanEncoder ==
    /\ ctx.impl = "x264lib"
    /\ call.op # "csc_image_rgb2yuv"
    /\ CodecReturned(clean_encoder(CodecWorld), "clean_encoder", 0)

X264libCleanDecoder ==
    /\ ctx.impl = "x264lib_decoder"
    /\ CodecReturned(clean_decoder(CodecWorld), "clean_decoder", 0)

\* the caller frees the struct after the clean call
CallerFree ==
    /\ call.op \in {"clean_encoder", "clean_decoder", "dec_avcodec_clean_decoder"}
    /\ \E outcome \in DoubleFreeOutcomes :
          CodecReturned(caller_free(CodecWorld,
                                    IF call.op = "dec_avcodec_clean_decoder"
                                    THEN "dec_avcodec_ctx" ELSE "x264lib_ctx",
                                    outcome),
                        "free", call.op)

CodecNext ==
    \/ CodecCleanEncoder
    \/ X264libCleanDecoder
    \/ CallerFree
    \/ VpxCscImageRgb2yuv
    \/ VpxCompressImage
    \/ CodecInitEncoder
    \/ CodecEncInitEncoder
    \/ CscImageRgb2yuv
    \/ CompressImage
    \/ EncCompressImage
    \/ CodecSetEncodingSpeed
    \/ CodecEncSetEncodingSpeed
    \/ DecInitDecoder
    \/ DecDecompressImage
    \/ DecCleanDecoder
    \/ X264libInitDecoder
    \/ VpxInitEncoder
    \/ VpxInitDecoder
    \/ VpxDecompressImage

CodecSpec == CodecInit /\ [][CodecNext]_vars

(***************************************************************************)
(* Output planes of the swscale converter: init_csc, csc_image and         *)
(* free_csc_image of csc_swscale.c over widths and heights that are and    *)
(* are not multiples of 2, 4 and 8. The call's out holds the strides and   *)
(* plane heights csc_image computed, outsz the size of the buffer it       *)
(* asked for.                                                              *)
(***************************************************************************)
PlaneWidths == {8, 640, 641, 642, 643}
PlaneHeights == {2, 480, 481}

\* destination format names given to init_csc
PlaneFormatArgs == {"RGB", "BGRX", "YUV420P", "YUV422P", "YUV444P", "GBRP", "bogus"}

NoPlanes == [stride |-> <<0, 0, 0>>, plane_height |-> <<0, 0, 0>>]

\* csc_image of csc_swscale.c; alloc_ok is the outcome of xmemalign, whose
\* result sws_scale writes through unchecked
csc_swscale_csc_image(w, alloc_ok) ==
    IF w.ctx = NoCtx THEN [w EXCEPT !.ret = 1]
    ELSE IF w.ctx.sws_ctx = 0 THEN [w EXCEPT !.ret = 1]
    ELSE LET dims == get_plane_dimensions(w.ctx.dst_format, w.ctx.dst_width,
                                          w.ctx.dst_height)
             out_stride == dims.stride
             out_height == dims.plane_height
             buffer_size == out_stride[1] * out_height[1] + out_stride[2] * out_height[2]
                              + out_stride[3] * out_height[3]
         IN IF ~alloc_ok THEN NullDeref(w, "sws_scale")
            ELSE [w EXCEPT !.lib.heap = Alloc(@, "csc_image"),
                           !.native = Append(@, NativeCall("sws_scale", w.ctx.sws_ctx,
                                                           NoParam)),
                           !.out = dims, !.outsz = buffer_size, !.ret = 0]

\* free_csc_image of csc_swscale.c
csc_swscale_free_csc_image(w) == [w EXCEPT !.lib.heap = Free(@, "csc_image")]

PlaneInit ==
    /\ ctx = NoCtx
    /\ lib = [heap |-> [k \in {"csc_swscale_ctx", "SwsContext", "csc_image"} |-> 0]]
    /\ call = CodecNoCall

PlaneWorld ==
    [ctx |-> ctx, lib |-> lib, native |-> <<>>, ret |-> 0, out |-> NoPlanes, outsz |-> 0]

PlaneInitCsc ==
    /\ ctx = NoCtx
    /\ call.op = "none"
    /\ \E width \in PlaneWidths, height \in PlaneHeights, dst \in PlaneFormatArgs,
          sws_ok \in BOOLEAN :
          CodecReturned(csc_swscale_init_csc(PlaneWorld, width, height, "BGRX",
                                             width, height, dst, 100, TRUE, sws_ok),
                        "csc_swscale_init_csc",
                        [width |-> width, height |-> height, dst |-> dst])

PlaneCscImage ==
    /\ ctx # Crashed
    /\ call.op \in {"csc_swscale_init_csc", "csc_swscale_free_csc_image"}
    /\ call.prev.op # "csc_swscale_csc_image"
    /\ \E alloc_ok \in BOOLEAN :
          CodecReturned(csc_swscale_csc_image(PlaneWorld, alloc_ok),
                        "csc_swscale_csc_image", 0)

PlaneFreeCscImage ==
    /\ ctx # Crashed
    /\ call.op = "csc_swscale_csc_image"
    /\ call.ret = 0
    /\ CodecReturned(csc_swscale_free_csc_image(PlaneWorld),
                     "csc_swscale_free_csc_image", 0)

PlaneNext ==
    \/ PlaneInitCsc
    \/ PlaneCscImage
    \/ PlaneFreeCscImage

PlaneSpec == PlaneInit /\ [][PlaneNext]_vars

(***************************************************************************)
(* Two threads, each with its own CUDA converter context: init_csc and     *)
(* free_csc of csc_nvcuda.c, interleaved at the statements that read and   *)
(* write the file's static variables. Here ctx and call are functions of   *)
(* the thread: ctx[t] is the context thread t holds, call[t] its position  *)
(* inside init_csc (pc), the struct it is building (pending) and the       *)
(* number of init_csc calls it has made; lib holds the heap and the        *)
(* statics cuda_initialized and cuda_device, and counts the init_cuda runs *)
(* that completed.                                                         *)
(***************************************************************************)
Threads == {"A", "B"}

\* number of init_csc calls of one thread explored in one run
MaxThreadInits == 2

\* the device init_cuda selects: the first suitable one
CudaDevices == {0, 1}

RaceInit ==
    /\ ctx = [t \in Threads |-> NoCtx]
    /\ lib = [heap |-> [k \in {"csc_nvcuda_ctx"} |-> 0],
              cuda_initialized |-> 0, cuda_device |-> -1, cuda_runs |-> 0]
    /\ call = [t \in Threads |-> [pc |-> "idle", pending |-> NoCtx, inits |-> 0]]

\* init_csc up to the test of cuda_initialized: malloc, the colorspaces, the
\* lookup of the conversion function
RaceInitCscBegin(t) ==
    /\ call[t].pc = "idle"
    /\ ctx[t] = NoCtx
    /\ call[t].inits < MaxThreadInits
    /\ \E d \in Dims, src \in {"RGB", "BGRX", "bogus"}, dst \in {"YUV420P", "YUV444P"} :
       \E func \in csc_nvcuda_funcs(get_colorspace_by_name(src),
                                     get_colorspace_by_name(dst)) :
          LET c == [impl |-> "csc_nvcuda", width |-> d[1], height |-> d[2],
                    src_colorspace |-> get_colorspace_by_name(src),
                    dst_colorspace |-> get_colorspace_by_name(dst)]
          IN IF func = NULL
             THEN /\ call' = [call EXCEPT ![t].inits = @ + 1]
                  /\ UNCHANGED <<ctx, lib>>
             ELSE /\ call' = [call EXCEPT ![t].inits = @ + 1, ![t].pc = "test",
                                          ![t].pending = c]
                  /\ lib' = [lib EXCEPT !.heap = Alloc(@, "csc_nvcuda_ctx")]
                  /\ UNCHANGED ctx

\* if (!cuda_initialized): the read of the static flag
RaceTestInitialized(t) ==
    /\ call[t].pc = "test"
    /\ IF lib.cuda_initialized = 0
       THEN /\ call' = [call EXCEPT ![t].pc = "init_cuda"]
            /\ UNCHANGED <<ctx, lib>>
       ELSE /\ ctx' = [ctx EXCEPT ![t] = call[t].pending]
            /\ call' = [call EXCEPT ![t].pc = "idle", ![t].pending = NoCtx]
            /\ UNCHANGED lib

\* init_cuda and the return of init_csc
RaceInitCuda(t) ==
    /\ call[t].pc = "init_cuda"
    /\ \E cuda_ok \in BOOLEAN, device \in CudaDevices :
          IF cuda_ok
          THEN /\ lib' = [lib EXCEPT !.cuda_device = device, !.cuda_initialized = 1,
                                     !.cuda_runs = @ + 1]
               /\ ctx' = [ctx EXCEPT ![t] = call[t].pending]
               /\ call' = [call EXCEPT ![t].pc = "idle", ![t].pending = NoCtx]
          ELSE /\ lib' = [lib EXCEPT !.heap = Free(@, "csc_nvcuda_ctx")]
               /\ call' = [call EXCEPT ![t].pc = "idle", ![t].pending = NoCtx]
               /\ UNCHANGED ctx

\* free_csc returns at once; the thread is done with the context
RaceFreeCsc(t) ==
    /\ call[t].pc = "idle"
    /\ ctx[t] # NoCtx
    /\ ctx' = [ctx EXCEPT ![t] = NoCtx]
    /\ UNCHANGED <<lib, call>>

RaceNext ==
    \E t \in Threads :
        \/ RaceInitCscBegin(t)
        \/ RaceTestInitialized(t)
        \/ RaceInitCuda(t)
        \/ RaceFreeCsc(t)

RaceSpec == RaceInit /\ [][RaceNext]_vars

(***************************************************************************)
(* The Windows service, packaging/MSWindows/service/Xpra-Service.cpp: the  *)
(* service main thread (SvcMain, SvcInit) and the control handler the      *)
(* service control manager calls on the dispatcher thread (SvcCtrlHandler),*)
(* interleaved at their calls. Here ctx is the global gSvcStatus, call     *)
(* holds the position of each thread and the argument the handler has      *)
(* evaluated, and lib holds what is outside the program: the child         *)
(* process, the stop event, the state last reported to the control         *)
(* manager, the number of SERVICE_STOPPED reports and the things done      *)
(* after the first of them.                                                *)
(***************************************************************************)
\* number of stop controls the control manager sends in one run
MaxStopControls == 2

SvcReportedStopped(w) == w.lib.stopped_reports > 0

\* something the service does that the outside can see
SvcAct(w, what) ==
    IF SvcReportedStopped(w)
    THEN [w EXCEPT !.lib.after_stopped = @ \cup {what}]
    ELSE w

ReportSvcStatus(w, dwCurrentState, dwWin32ExitCode) ==
    LET w1 == SvcAct(w, "SetServiceStatus")
    IN [w1 EXCEPT
          !.ctx = [dwCurrentState |-> dwCurrentState,
                   dwWin32ExitCode |-> dwWin32ExitCode,
                   dwControlsAccepted |->
                       IF dwCurrentState = "SERVICE_START_PENDING"
                       THEN {} ELSE {"SERVICE_ACCEPT_STOP"}],
          !.lib.reported = dwCurrentState,
          !.lib.stopped_reports =
              IF dwCurrentState = "SERVICE_STOPPED" THEN @ + 1 ELSE @]

\* WaitForSingleObject(process, timeout) == WAIT_OBJECT_0
SvcProcessGone(w) == w.lib.process = "exited"

SvcInitState ==
    /\ ctx = [dwCurrentState |-> "none", dwWin32ExitCode |-> 0,
              dwControlsAccepted |-> {}]
    /\ lib = [process |-> "none", event |-> FALSE, reported |-> "none",
              stopped_reports |-> 0, after_stopped |-> {}, controls |-> 0]
    /\ call = [main |-> "SvcMain", handler |-> "idle", arg |-> "none"]

SvcWorld == [ctx |-> ctx, lib |-> lib]

SvcStep(w, main) ==
    /\ ctx' = w.ctx
    /\ lib' = w.lib
    /\ call' = [call EXCEPT !.main = main]

\* SvcMain: the first status report, then SvcInit
SvcMain ==
    /\ call.main = "SvcMain"
    /\ SvcStep(ReportSvcStatus(SvcWorld, "SERVICE_START_PENDING", 0), "CreateProcess")

\* SvcInit up to the wait for the stop event: the child process is started
SvcInitStart ==
    /\ call.main = "CreateProcess"
    /\ \E created \in BOOLEAN :
          IF ~created
          THEN SvcStep(ReportSvcStatus(SvcWorld, "SERVICE_STOPPED", 1), "returned")
          ELSE SvcStep(ReportSvcStatus([SvcWorld EXCEPT !.lib.process = "running"],
                                       "SERVICE_RUNNING", 0), "WaitStopEvent")

\* the child process ends by itself, whatever the service is doing
SvcChildExits ==
    /\ lib.process = "running"
    /\ lib' = [lib EXCEPT !.process = "exited"]
    /\ UNCHANGED <<ctx, call>>

\* WaitForSingleObject(ghSvcStopEvent, INFINITE), then the 10 ms look at the
\* child: a child that is gone is reported, and SvcInit carries on
SvcInitStopRequested ==
    /\ call.main = "WaitStopEvent"
    /\ lib.event
    /\ IF SvcProcessGone(SvcWorld)
       THEN SvcStep(ReportSvcStatus(SvcWorld, "SERVICE_STOPPED", 0), "stop_command")
       ELSE SvcStep(SvcWorld, "stop_command")

\* one escalation step of SvcInit: `what` has been done and the wait for the
\* child is over; SERVICE_STOPPED is reported and SvcInit returns if the
\* child is gone
SvcEscalate(w, next) ==
    IF SvcProcessGone(w)
    THEN SvcStep(ReportSvcStatus(w, "SERVICE_STOPPED", 0), "returned")
    ELSE SvcStep(w, next)

\* the stop command is launched; the wait of 5 s is over
SvcInitStopCommand ==
    /\ call.main = "stop_command"
    /\ SvcEscalate(SvcAct(SvcWorld, "stop_command"), "WM_CLOSE")

SvcInitClose ==
    /\ call.main = "WM_CLOSE"
    /\ SvcEscalate(SvcAct(SvcWorld, "PostMessage"), "WM_QUIT")

SvcInitQuit ==
    /\ call.main = "WM_QUIT"
    /\ SvcEscalate(SvcAct(SvcWorld, "PostMessage"), "WM_DESTROY")

SvcInitDestroy ==
    /\ call.main = "WM_DESTROY"
    /\ SvcEscalate(SvcAct(SvcWorld, "PostMessage"), "TerminateProcess")

SvcInitTerminate ==
    /\ call.main = "TerminateProcess"
    /\ SvcStep(ReportSvcStatus([SvcAct(SvcWorld, "TerminateProcess")
                                    EXCEPT !.lib.process = "exited"],
                               "SERVICE_STOPPED", 0), "returned")

SvcHandlerStep(w, handler, arg) ==
    /\ ctx' = w.ctx
    /\ lib' = w.lib
    /\ call' = [call EXCEPT !.handler = handler, !.arg = arg]

\* the control manager sends SERVICE_CONTROL_STOP to a service that accepts
\* it and is not stopped; SvcCtrlHandler reports SERVICE_STOP_PENDING
SvcCtrlHandlerStop ==
    /\ call.handler = "idle"
    /\ lib.controls < MaxStopControls
    /\ "SERVICE_ACCEPT_STOP" \in ctx.dwControlsAccepted
    /\ lib.reported # "SERVICE_STOPPED"
    /\ SvcHandlerStep(ReportSvcStatus([SvcWorld EXCEPT !.lib.controls = @ + 1],
                                      "SERVICE_STOP_PENDING", 0),
                      "SetEvent", "none")

SvcCtrlHandlerSetEvent ==
    /\ call.handler = "SetEvent"
    /\ SvcHandlerStep([SvcWorld EXCEPT !.lib.event = TRUE], "read", "none")

\* the argument of the second report: gSvcStatus.dwCurrentState as it is now
SvcCtrlHandlerRead ==
    /\ call.handler = "read"
    /\ SvcHandlerStep(SvcWorld, "report", ctx.dwCurrentState)

SvcCtrlHandlerReport ==
    /\ call.handler = "report"
    /\ SvcHandlerStep(ReportSvcStatus(SvcWorld, call.arg, 0), "idle", "none")

SvcNext ==
    \/ SvcMain
    \/ SvcInitStart
    \/ SvcChildExits
    \/ SvcInitStopRequested
    \/ SvcInitStopCommand
    \/ SvcInitClose
    \/ SvcInitQuit
    \/ SvcInitDestroy
    \/ SvcInitTerminate
    \/ SvcCtrlHandlerStop
    \/ SvcCtrlHandlerSetEvent
    \/ SvcCtrlHandlerRead
    \/ SvcCtrlHandlerReport

SvcSpec == SvcInitState /\ [][SvcNext]_vars

(***************************************************************************)
(* Properties                                                              *)
(***************************************************************************)
IsX264lib == ctx.impl = "x264lib"
IsEncX264 == ctx.impl = "enc_x264"

\* the step being taken is a set_encoding_quality call of x264lib.c
SetQualityStep == IsX264lib /\ call'.op = "set_encoding_quality"

\* the call opened / closed / reconfigured a native encoder
Issued(cl, fn) == \E i \in 1..Len(cl.native) : cl.native[i].fn = fn

Thresholds(c) == <<c.I422_quality, c.I444_quality, c.I422_min, c.I444_min>>

Clamp100(pct) == IF pct < 0 THEN 0 ELSE IF pct > 100 THEN 100 ELSE pct

\* C1 (as claimed): from 4:2:2, with colour sampling switching supported,
\* set_encoding_quality(pct) keeps 4:2:2 exactly when
\* I422_min <= pct < I444_quality, downgrades when pct < I422_min and promotes
\* to 4:4:4 when pct >= I444_quality, pct = I444_quality included.
C1_Claim ==
    [][ (SetQualityStep /\ ctx.supports_csc_option # 0
           /\ ctx.colour_sampling = X264_CSP_I422)
        => LET pct == call'.arg IN
           /\ (ctx'.colour_sampling = X264_CSP_I422)
                 <=> (ctx.I422_min <= pct /\ pct < ctx.I444_quality)
           /\ (pct < ctx.I422_min) => (ctx'.colour_sampling = X264_CSP_I420)
           /\ (pct >= ctx.I444_quality) => (ctx'.colour_sampling = X264_CSP_I444)
      ]_vars

\* C2 (as claimed): from 4:2:0, with colour sampling switching supported,
\* set_encoding_quality(pct) keeps 4:2:0 when pct < I422_quality and promotes
\* the sampling for every pct >= I422_quality, pct = I422_quality included.
C2_Claim ==
    [][ (SetQualityStep /\ ctx.supports_csc_option # 0
           /\ ctx.colour_sampling = X264_CSP_I420)
        => LET pct == call'.arg IN
           /\ (pct < ctx.I422_quality) => (ctx'.colour_sampling = X264_CSP_I420)
           /\ (pct >= ctx.I422_quality)
                 => (ctx'.colour_sampling \in {X264_CSP_I422, X264_CSP_I444})
      ]_vars

\* C3: from 4:4:4, set_encoding_quality(pct) keeps 4:4:4 if and only if
\* pct >= I444_min, at every call of any sequence of calls; so a pct between
\* I444_min and I444_quality never downgrades.
C3_Keep444 ==
    [][ (SetQualityStep /\ ctx.colour_sampling = X264_CSP_I444)
        => ((ctx'.colour_sampling = X264_CSP_I444) <=> (call'.arg >= ctx.I444_min))
      ]_vars

\* a call with I444_min <= pct < I444_quality that found 4:4:4 and kept it
\* (no encoder was opened by the call, so 4:4:4 was the sampling before it)
C3_Witness ==
    /\ IsX264lib
    /\ call.op = "set_encoding_quality"
    /\ ctx.colour_sampling = X264_CSP_I444
    /\ ctx.I444_min <= call.arg /\ call.arg < ctx.I444_quality
    /\ ~Issued(call, "x264_encoder_open")

\* C4 (as claimed): with thresholds 80/90/70/80 the qualities 95, 85, 75, 65
\* give 444, 444, 422, 420; a downgrade out of 4:4:4 (pct < I444_min) lands on
\* 4:2:2 whenever pct >= I422_min and on 4:2:0 only when pct < I422_min.
C4_Claim ==
    [][ (SetQualityStep /\ ctx.colour_sampling = X264_CSP_I444
           /\ call'.arg < ctx.I444_min)
        => ctx'.colour_sampling =
              (IF call'.arg >= ctx.I422_min THEN X264_CSP_I422 ELSE X264_CSP_I420)
      ]_vars

\* C4 (amended): with thresholds 80/90/70/80, init at 95 gives 444, then 85
\* keeps 444, 75 goes from 444 to 420 and 65 stays 420; a downgrade out of
\* 4:4:4 (pct < I444_min) lands on 4:2:2 whenever pct >= I422_quality and on
\* 4:2:0 when pct < I422_quality.
C4_Downgrade ==
    [][ /\ (SetQualityStep /\ ctx.colour_sampling = X264_CSP_I444
              /\ call'.arg < ctx.I444_min)
           => ctx'.colour_sampling =
                 (IF call'.arg >= ctx.I422_quality THEN X264_CSP_I422
                                                   ELSE X264_CSP_I420)
        /\ (call'.op = "init_encoder" /\ ctx'.supports_csc_option # 0
              /\ Thresholds(ctx') = <<80, 90, 70, 80>>
              /\ call'.arg.initial_quality = 95)
           => ctx'.colour_sampling = X264_CSP_I444
        /\ (SetQualityStep /\ Thresholds(ctx) = <<80, 90, 70, 80>>)
           => /\ (ctx.colour_sampling = X264_CSP_I444 /\ call'.arg = 85)
                 => ctx'.colour_sampling = X264_CSP_I444
              /\ (ctx.colour_sampling = X264_CSP_I444 /\ call'.arg = 75)
                 => ctx'.colour_sampling = X264_CSP_I420
              /\ (ctx.colour_sampling = X264_CSP_I420 /\ call'.arg = 65)
                 => ctx'.colour_sampling = X264_CSP_I420
      ]_vars

\* thresholds 80/90/70/80, quality set to 75 and the encoder re-opened at
\* 4:2:0: neither 4:2:2 nor 4:2:0 is left at 75 (70 <= 75 <= 80), so the call
\* came out of 4:4:4
C4_Witness ==
    /\ IsX264lib
    /\ Thresholds(ctx) = <<80, 90, 70, 80>>
    /\ call.op = "set_encoding_quality"
    /\ call.arg = 75
    /\ Issued(call, "x264_encoder_close")
    /\ Issued(call, "x264_encoder_open")
    /\ ctx.colour_sampling = X264_CSP_I420

\* C5: set_encoding_quality closes and re-opens the native encoder if and
\* only if the colour sampling after the call differs from the one before;
\* when it is unchanged the encoder handle is the same object as before.
C5_ReopenIffSamplingChanges ==
    [][ SetQualityStep
        => LET changed == ctx'.colour_sampling # ctx.colour_sampling IN
           /\ Issued(call', "x264_encoder_open") <=> changed
           /\ Issued(call', "x264_encoder_close") <=> changed
           /\ changed => (ctx'.encoder # ctx.encoder /\ ctx'.encoder = lib'.live)
           /\ ~changed => (ctx'.encoder = ctx.encoder /\ lib'.live = lib.live
                             /\ lib'.opens = lib.opens)
      ]_vars

\* a call that re-opened the encoder at another sampling
C5_Witness ==
    /\ IsX264lib
    /\ call.op = "set_encoding_quality"
    /\ Issued(call, "x264_encoder_close")
    /\ Issued(call, "x264_encoder_open")
    /\ lib.opens >= 2
    /\ ctx.encoder = lib.opens

\* C6: a set_encoding_quality call that immediately follows one with the same
\* pct closes and opens no encoder, issues no reconfiguration and leaves every
\* field of the context unchanged (both wrappers).
C6_Idempotent ==
    [][ (/\ call.op \in {"set_encoding_quality", "enc_x264_set_encoding_quality"}
         /\ call'.op = call.op
         /\ call'.arg = call.arg)
        => (ctx' = ctx /\ lib' = lib /\ call'.native = <<>>)
      ]_vars

\* the second of two calls with the same pct, the first of which changed the
\* quality to pct
C6_Witness ==
    /\ call.op \in {"set_encoding_quality", "enc_x264_set_encoding_quality"}
    /\ call.repeat
    /\ ctx.quality = call.arg
    /\ call.native = <<>>

\* C7: whatever threshold arguments init_encoder is given, it returns a
\* context and the stored thresholds satisfy
\* 0 <= I422_min <= I422_quality <= 100, 0 <= I444_min <= I444_quality <= 100
\* and I422_quality <= I444_quality.
C7_ThresholdRules ==
    /\ (call.op = "init_encoder") => IsX264lib
    /\ IsX264lib =>
         /\ 0 <= ctx.I422_min /\ ctx.I422_min <= ctx.I422_quality
         /\ ctx.I422_quality <= 100
         /\ 0 <= ctx.I444_min /\ ctx.I444_min <= ctx.I444_quality
         /\ ctx.I444_quality <= 100
         /\ ctx.I422_quality <= ctx.I444_quality

\* init_encoder was given an I444_quality below I422_quality, a negative
\* I422_min and an I444_min above 100
C7_Witness ==
    /\ call.op = "init_encoder"
    /\ call.arg.I444_quality >= 0
    /\ call.arg.I444_quality < call.arg.I422_quality
    /\ call.arg.I422_min < 0
    /\ call.arg.I444_min > 100
    /\ IsX264lib

\* C8: init_encoder with initial quality q (colour sampling switching
\* supported) opens the encoder at 4:2:0 if q < I422_quality, at 4:2:2 if
\* I422_quality <= q < I444_quality and at 4:4:4 otherwise; with the default
\* thresholds and quality 70 that is 4:2:0 (thresholds 80 / 90); a negative
\* initial quality or speed is replaced by 70 and 20.
C8_InitialSampling ==
    (call.op = "init_encoder") =>
       LET a == call.arg
           q == IF a.initial_quality < 0 THEN 70 ELSE a.initial_quality
           s == IF a.initial_speed < 0 THEN 20 ELSE a.initial_speed
           expected == IF q < ctx.I422_quality THEN X264_CSP_I420
                       ELSE IF q < ctx.I444_quality THEN X264_CSP_I422
                       ELSE X264_CSP_I444
       IN /\ ctx.quality = q
          /\ ctx.speed = s
          /\ (a.supports_csc_option # 0) =>
                /\ ctx.colour_sampling = expected
                /\ Len(call.native) = 1
                /\ call.native[1].fn = "x264_encoder_open"
                /\ call.native[1].param.i_csp = expected
                /\ ctx.encoder = call.native[1].h
          /\ (a.supports_csc_option # 0 /\ a.I422_quality < 0 /\ a.I444_quality < 0
                /\ q = 70) =>
                /\ ctx.I422_quality = 80 /\ ctx.I444_quality = 90
                /\ ctx.colour_sampling = X264_CSP_I420

\* init_encoder called with a negative quality and speed and out-of-range
\* (default) thresholds, colour sampling switching supported
C8_Witness ==
    /\ call.op = "init_encoder"
    /\ call.arg.initial_quality < 0
    /\ call.arg.initial_speed < 0
    /\ call.arg.supports_csc_option # 0
    /\ call.arg.I422_quality < 0
    /\ call.arg.I444_quality < 0
    /\ ctx.colour_sampling = X264_CSP_I420

\* C9 (as claimed): after set_encoding_quality(ctx, pct) the context's quality
\* is pct clamped to 0..100 (both wrappers).
C9_Claim ==
    (call.op \in {"set_encoding_quality", "enc_x264_set_encoding_quality"})
        => ctx.quality = Clamp100(call.arg)

\* C10 (as claimed): every parameter set handed to the native encoder, at
\* open and at every reconfiguration, has keyint max/min 999999, open GOP
\* enabled and intra-refresh disabled (both wrappers).
C10_Claim ==
    \A i \in 1..Len(call.native) :
        (call.native[i].fn \in {"x264_encoder_open", "x264_encoder_reconfig"})
        => /\ call.native[i].param.i_keyint_max = 999999
           /\ call.native[i].param.i_keyint_min = 999999
           /\ call.native[i].param.b_open_gop = 1
           /\ call.native[i].param.b_intra_refresh = 0

\* the call just returned is an init_encoder or a set_encoding_speed call of
\* either wrapper that left a context, and SpeedArg is the speed it was given
SpeedOps == {"set_encoding_speed", "enc_x264_set_encoding_speed"}
InitOps == {"init_encoder", "enc_x264_init_encoder"}
SpeedCall == ctx.impl # "none" /\ call.op \in (SpeedOps \cup InitOps)
SpeedArg == IF call.op \in SpeedOps THEN call.arg ELSE call.arg.initial_speed

\* C11 (as claimed): the preset index selected at init_encoder and by
\* set_encoding_speed is 0 (the fastest preset) for speed 100 and strictly
\* positive for every speed below 99 (both wrappers).
C11_Claim ==
    SpeedCall =>
        /\ (SpeedArg = 100) => (ctx.encoding_preset = 0)
        /\ (SpeedArg < 99) => (ctx.encoding_preset > 0)

\* floor(x / d) clamped to lo..hi, as the claimed formula reads
ClampFloorDiv(x, d, lo, hi) ==
    LET f == x \div d IN IF f < lo THEN lo ELSE IF f > hi THEN hi ELSE f

\* the call just returned went through a speed mapping: set_encoding_speed of
\* either wrapper, or init_encoder of enc_x264.c
MappedSpeedCall ==
    /\ ctx.impl # "none"
    /\ call.op \in (SpeedOps \cup {"enc_x264_init_encoder"})

\* C12 (as claimed): for every speed percentage the preset index the encoder
\* uses equals 7 - clamp(floor(speed/16), 0, 6).
C12_Claim ==
    MappedSpeedCall =>
        ctx.encoding_preset = 7 - ClampFloorDiv(SpeedArg, 16, 0, 6)

\* preset index k is the one selected for speed s by a mapping in steps of
\* `step` percent: 7 below the first step, k for step*(7-k) <= s < step*(8-k),
\* and 1 from step*6 upwards
InStepBand(k, s, step) ==
    /\ k \in 1..7
    /\ (k < 7) => (step * (7 - k) <= s)
    /\ (k > 1) => (s < step * (8 - k))

\* C12 (amended): enc_x264.c selects preset 0 for every speed above 99 and
\* otherwise the preset of the 15-percent band the speed lies in;
\* set_encoding_speed of x264lib.c selects the preset of the 16-percent band
\* and never preset 0.  The live native encoder runs the preset of that
\* index.
C12_PresetForSpeed ==
    MappedSpeedCall =>
        LET s == SpeedArg
            k == ctx.encoding_preset
        IN /\ IsEncX264 => /\ (k = 0) <=> (s > 99)
                            /\ (k # 0) => InStepBand(k, s, 15)
           /\ IsX264lib => InStepBand(k, s, 16)
           /\ lib.param.preset = x264_preset_names[k + 1]

\* enc_x264.c set_encoding_speed(ctx, 90) selected preset 1, where a mapping
\* in sixteenths gives preset 2
C12_Witness ==
    /\ call.op = "enc_x264_set_encoding_speed"
    /\ call.arg = 90
    /\ ctx.encoding_preset = 1
    /\ Issued(call, "x264_encoder_reconfig")

QualityOps == {"set_encoding_quality", "enc_x264_set_encoding_quality"}

\* the call just returned is a set_encoding_quality call, or an init_encoder
\* call given a quality (not the negative "use the default" value)
QualityCall ==
    /\ ctx.impl # "none"
    /\ \/ call.op \in QualityOps
       \/ call.op \in InitOps /\ call.arg.initial_quality >= 0

QualityArg == IF call.op \in QualityOps THEN call.arg ELSE call.arg.initial_quality

\* the rate factors (in hundredths) the call handed to the native encoder
HandedRF ==
    { call.native[i].param.f_rf_constant :
        i \in { j \in 1..Len(call.native) :
                  call.native[j].fn \in {"x264_encoder_open", "x264_encoder_reconfig"} } }

ProfilesOf(sampling) ==
    IF sampling = X264_CSP_I420 THEN I420_PROFILES
    ELSE IF sampling = X264_CSP_I422 THEN I422_PROFILES
    ELSE I444_PROFILES

\* what a profile argument has to become: itself when it is in the list,
\* the default otherwise
Validated(name, profiles, default) == IF InSeq(name, profiles) THEN name ELSE default

\* C14: after init_encoder with any profile arguments and after any later
\* set_encoding_quality / set_encoding_speed calls, the context's active
\* profile is in the list of profiles legal for its active sampling and is
\* the one the live native encoder was given; a profile name that is not
\* legal for the sampling it is given for is replaced by that sampling's
\* default, and init_encoder still returns a context with an open encoder.
C14_ProfileLegal ==
    /\ IsX264lib =>
          /\ InSeq(ctx.profile, ProfilesOf(ctx.colour_sampling))
          /\ lib.param.profile = ctx.profile
          /\ ctx.profile \in {ctx.I420_profile, ctx.I422_profile, ctx.I444_profile}
    /\ IsEncX264 =>
          /\ InSeq(ctx.profile, get_x264_format(ctx.colorspace).profiles)
          /\ lib.param.profile = ctx.profile
    /\ (call.op = "init_encoder") =>
          /\ IsX264lib /\ ctx.encoder # 0 /\ lib.live = ctx.encoder
          /\ ctx.I420_profile
                = Validated(call.arg.profiles[1], I420_PROFILES, DEFAULT_I420_PROFILE)
          /\ ctx.I422_profile
                = Validated(call.arg.profiles[2], I422_PROFILES, DEFAULT_I422_PROFILE)
          /\ ctx.I444_profile
                = Validated(call.arg.profiles[3], I444_PROFILES, DEFAULT_I444_PROFILE)
    /\ (call.op = "enc_x264_init_encoder"
          /\ get_x264_format(call.arg.colorspace) # NoFormat) =>
          /\ IsEncX264 /\ ctx.x264_ctx # 0 /\ lib.live = ctx.x264_ctx
          /\ ctx.profile
                = Validated(call.arg.profile,
                            get_x264_format(call.arg.colorspace).profiles,
                            get_x264_format(call.arg.colorspace).default_profile)

\* init_encoder was given a 4:2:2 profile name that is legal for 4:2:0 only,
\* at a quality that selects 4:2:2: the encoder runs the 4:2:2 default
C14_Witness ==
    /\ call.op = "init_encoder"
    /\ call.arg.profiles[2] = PROFILE_BASELINE
    /\ ctx.colour_sampling = X264_CSP_I422
    /\ ctx.profile = DEFAULT_I422_PROFILE
    /\ lib.param.profile = DEFAULT_I422_PROFILE

\* the format names of each converter's table
NvNames == { colorspaces[i].name : i \in 1..Len(colorspaces) }
SwsNames == { sws_formats[i].str : i \in 1..Len(sws_formats) }

\* the source/destination pairs the CUDA backend has a conversion for
NvPairs ==
    { <<"RGB", "YUV444P">>, <<"RGBA", "YUV444P">>,
      <<"RGB", "YUV422P">>, <<"BGR", "YUV422P">>, <<"BGRX", "YUV422P">>,
      <<"RGB", "YUV420P">>, <<"BGR", "YUV420P">>, <<"BGRX", "YUV420P">> }

\* an array was read outside its bounds during the call
ReadOutside(cl) ==
    \E i \in 1..Len(cl.native) :
        /\ cl.native[i].fn = "array_read"
        /\ cl.native[i].h \notin 0..3

\* C15 (as claimed): init_csc returns NULL, and leaves no context, whenever a
\* format name is not in the backend's table or the backend has no
\* conversion for the source/destination pair, and it never reads a
\* conversion table at the index of an unrecognized format.
C15_Claim ==
    /\ (call.op = "csc_nvcuda_init_csc") =>
          /\ (call.arg.src \notin NvNames \/ call.arg.dst \notin NvNames
                \/ <<call.arg.src, call.arg.dst>> \notin NvPairs) => (ctx = NoCtx)
          /\ ~ReadOutside(call)
    /\ (call.op = "csc_swscale_init_csc") =>
          ((call.arg.src \notin SwsNames \/ call.arg.dst \notin SwsNames)
              => (ctx = NoCtx))

\* the native open call made during the call returned no handle
OpenFailed(cl) ==
    \E i \in 1..Len(cl.native) :
        cl.native[i].fn = "x264_encoder_open" /\ cl.native[i].h = 0

\* C16 (as claimed): when the native encoder cannot be opened during
\* init_encoder, init_encoder returns NULL instead of a context, so no
\* context is ever without a native encoder and no later compress_image or
\* set_encoding_speed call runs on (and dereferences) a missing encoder.
C16_Claim ==
    /\ (call.op \in InitOps /\ OpenFailed(call)) => (ctx = NoCtx)
    /\ IsX264lib => (ctx.encoder # 0)
    /\ IsEncX264 => (ctx.x264_ctx # 0)
    /\ ctx # Crashed

CompressOps == {"compress_image", "enc_x264_compress_image"}

\* C20: every compress_image call that returns 0 hands back exactly one
\* non-empty packet, the one of the frame passed in that call; the packets
\* handed back so far are those of the frames whose call succeeded, one per
\* call and in submission order, and the native encoder holds no frame back.
C20_OnePacketPerFrame ==
    /\ (call.op \in CompressOps /\ ctx # Crashed /\ call.ret = 0) =>
          /\ call.out # NoPacket
          /\ call.out.frame = call.arg.frame
          /\ call.outsz > 0
    /\ (call.op \in CompressOps /\ ctx # Crashed /\ call.ret # 0) =>
          /\ call.out = NoPacket
          /\ call.outsz = 0
    /\ Len(lib.delivered) = Len(lib.succeeded)
    /\ \A i \in 1..Len(lib.succeeded) :
          /\ lib.delivered[i].packet = [frame |-> lib.succeeded[i]]
          /\ lib.delivered[i].outsz > 0
          /\ \A j \in 1..(i - 1) : lib.succeeded[j] < lib.succeeded[i]
    /\ lib.queue = <<>>
    /\ ~(call.op \in CompressOps /\ Issued(call, "nals[0]"))

\* the second successful compress_image call has returned its packet, after
\* the encoder was reconfigured by set_encoding_speed
C20_Witness ==
    /\ call.op \in CompressOps
    /\ call.ret = 0
    /\ Len(lib.delivered) = 2
    /\ lib.param.preset # x264_preset_names[2 + 1]
    /\ ctx.impl = "x264lib"

CodecInitOps == {"init_encoder", "enc_x264_init_encoder", "dec_avcodec_init_decoder",
                 "init_decoder", "vpx_init_encoder", "vpx_init_decoder"}

\* C17 (as claimed): when an init call returns NULL, nothing it allocated
\* during the call (context struct, codec context, frame, scaler) is still
\* allocated, whichever native call failed.
C17_Claim ==
    (call.op \in CodecInitOps /\ ctx = NoCtx) =>
        \A k \in HeapKinds : lib.heap[k] = 0

DecompressOps == {"dec_avcodec_decompress_image", "vpx_decompress_image"}

\* the context still has the native handles a call needs
HasNativeHandles(c) ==
    CASE c.impl = "dec_avcodec" -> c.codec_ctx # 0 /\ c.codec # 0
      [] c.impl = "vpx_decoder" -> c.codec # 0
      [] c.impl = "x264lib" -> c.encoder # 0
      [] c.impl = "enc_x264" -> c.x264_ctx # 0
      [] OTHER -> FALSE

\* the native coder produced output for the call
NativeProduced(cl) ==
    IF cl.op \in DecompressOps THEN cl.arg.kind = "picture" ELSE cl.arg.native = "frame"

\* C18: a compress_image or decompress_image call that returns an error
\* leaves every field of the context and the native handles as they were,
\* and the call after an errored one is processed as any other: it succeeds
\* whenever the native coder produces output for it.
C18_ErrorKeepsContext ==
    [][ (call'.op \in CompressOps \cup DecompressOps /\ call' # call
            /\ ctx # Crashed /\ ctx' # Crashed) =>
          /\ (call'.ret # 0) =>
                /\ ctx' = ctx
                /\ lib'.live = lib.live
                /\ lib'.param = lib.param
                /\ \A k \in HeapKinds \ {"x264_picture_t"} : lib'.heap[k] = lib.heap[k]
          /\ (call.op = call'.op /\ call.ret # 0 /\ HasNativeHandles(ctx)
                /\ NativeProduced(call')) => (call'.ret = 0) ]_vars

\* a decompress_image call has succeeded right after one that returned an
\* error on the same context
C18_Witness ==
    /\ call.op \in DecompressOps
    /\ call.ret = 0
    /\ call.prev.op = call.op
    /\ call.prev.ret # 0
    /\ ctx # Crashed

\* what get_colorspace answers for the context
ReportedColorspace(c) ==
    IF c.impl = "dec_avcodec" THEN dec_avcodec_get_colorspace(c) ELSE vpx_get_colorspace(c)

\* the names of the pixel formats that have one
NamedFormats == {PIX_FMT_YUV420P, PIX_FMT_YUV422P, PIX_FMT_YUV444P, VPX_IMG_FMT_I420}

NameOfFormat(f) ==
    CASE f = PIX_FMT_YUV420P -> "YUV420P"
      [] f = PIX_FMT_YUV422P -> "YUV422P"
      [] f = PIX_FMT_YUV444P -> "YUV444P"
      [] f = VPX_IMG_FMT_I420 -> "YUV420P"

SwsSelected == call.op = "csc_swscale_init_csc" /\ ctx # NoCtx

\* the table entries whose speed score is at least s, as C indexes
AtLeast(s) == { i \in 0..(Len(swscale_flags) - 1) : swscale_flags[i + 1].speed >= s }

\* C21 (as claimed): for a speed hint s, init_csc selects, among the table
\* entries whose speed score is >= s, the fastest one (the highest score).
C21_Claim ==
    (SwsSelected /\ AtLeast(call.arg.speed) # {}) =>
        /\ ctx.flags \in AtLeast(call.arg.speed)
        /\ \A i \in AtLeast(call.arg.speed) :
              swscale_flags[i + 1].speed <= swscale_flags[ctx.flags + 1].speed

\* C21 (amended): for a speed hint s that some entry's speed score reaches,
\* init_csc selects, among the table entries whose speed score is >= s, the
\* one with the lowest score, which is the first of them in table order.
C21_LowestScoreAtLeast ==
    (SwsSelected /\ AtLeast(call.arg.speed) # {}) =>
        /\ ctx.flags \in AtLeast(call.arg.speed)
        /\ \A i \in AtLeast(call.arg.speed) :
              /\ swscale_flags[i + 1].speed >= swscale_flags[ctx.flags + 1].speed
              /\ i >= ctx.flags

\* init_csc with the hint 75 selected the entry of score 80, with faster
\* entries after it in the table
C21_Witness ==
    /\ SwsSelected
    /\ call.arg.speed = 75
    /\ ctx.flags = 3
    /\ swscale_flags[ctx.flags + 1].speed = 80

\* C22 (as claimed): for a speed hint above every speed score of the table
\* init_csc selects the slowest, highest-quality entry (the first one), and
\* for every hint the selected entry is one of the six entries of the table.
C22_Claim ==
    SwsSelected =>
        /\ ctx.flags \in 0..(Len(swscale_flags) - 1)
        /\ (AtLeast(call.arg.speed) = {}) => (ctx.flags = 0)

CscFreeOps == {"csc_nvcuda_free_csc", "csc_swscale_free_csc"}

\* C23 (as claimed): when free_csc has returned, everything init_csc
\* allocated for the context is released: the native scaler and the context
\* struct itself, so that nothing allocated by init_csc remains.
C23_Claim ==
    (call.op \in CscFreeOps) => \A k \in DOMAIN lib.heap : lib.heap[k] = 0

\* csc_image has returned the planes of a converted frame
PlanesComputed == call.op = "csc_swscale_csc_image" /\ ctx # Crashed /\ call.ret = 0

\* the multipliers, in halves, of the context's destination format
MultsOf(c) ==
    sws_formats[CHOOSE i \in 1..Len(sws_formats) :
                   sws_formats[i].sws_pixfmt = c.dst_format]

\* the smallest multiple of 4 that is not below n halves
RoundUp4OfHalves(n) == CHOOSE m \in 0..(n + 8) : m % 4 = 0 /\ 2 * m >= n /\ 2 * (m - 4) < n

\* C24 (as claimed): for every destination format, width and height
\* csc_image gives plane i the stride width x width-multiplier(i) rounded up
\* to a multiple of 4 and the height height x height-multiplier(i), and asks
\* for one buffer of the sum of stride x height over the planes; YUV420P at
\* 640x480 has strides 640, 320, 320 and heights 480, 240, 240.
C24_Claim ==
    PlanesComputed =>
        /\ \A i \in 1..3 :
              /\ call.out.stride[i] = RoundUp4OfHalves(ctx.dst_width * MultsOf(ctx).width_mult[i])
              /\ 2 * call.out.plane_height[i] = ctx.dst_height * MultsOf(ctx).height_mult[i]
        /\ call.outsz = call.out.stride[1] * call.out.plane_height[1]
                          + call.out.stride[2] * call.out.plane_height[2]
                          + call.out.stride[3] * call.out.plane_height[3]
        /\ (ctx.dst_format = PIX_FMT_YUV420P /\ ctx.dst_width = 640 /\ ctx.dst_height = 480)
              => /\ call.out.stride = <<640, 320, 320>>
                 /\ call.out.plane_height = <<480, 240, 240>>

\* C29 (as claimed): every context the CUDA init_csc returned is accepted by
\* csc_image: when the CUDA runtime calls succeed, csc_image does not reject
\* the context's destination colorspace and returns 0, also for an RGB or
\* RGBA source with destination YUV444P. (Stated for the contexts whose
\* source format is one the table names.)
C29_Claim ==
    (call.op = "csc_nvcuda_csc_image" /\ call.arg.cuda_ok
        /\ ctx.impl = "csc_nvcuda" /\ ctx.src_colorspace \in {RGB, RGBA, BGR, BGRA}) =>
        call.arg.ret = 0

PictureKinds == {"x264_picture_t", "vpx_image_t", "vpx_img_data"}

\* C26 (as claimed): when compress_image has returned, on the success path
\* and on each error path, the picture csc_image_rgb2yuv made for it is
\* released completely, pixel data and container: nothing of it remains
\* allocated.
C26_Claim ==
    (call.op \in {"compress_image", "vpx_compress_image"} /\ ctx # Crashed) =>
        \A k \in PictureKinds : lib.heap[k] = 0

\* C27 (as claimed): clean_encoder and clean_decoder release the native
\* resources and leave the context struct allocated; the caller's free(ctx)
\* after them frees it, so that over init ... clean ... free every context
\* struct is freed exactly once.
C27_Claim ==
    /\ (call.op \in {"clean_encoder", "clean_decoder"}) =>
          /\ lib.heap["x264lib_ctx"] = 1
          /\ ctx # Dangling
    /\ (call.op = "free") =>
          /\ ctx = NoCtx
          /\ lib.heap["x264lib_ctx"] = 0

\* C28 (as claimed): between calls the encoder's active preset is the one
\* the speed mapping gives for the context's current speed percentage, also
\* right after init_encoder with an initial speed and right after a
\* set_encoding_quality call that opens the encoder anew.
C28_Claim ==
    /\ IsX264lib =>
          /\ ctx.encoding_preset = speed_to_preset(ctx.speed)
          /\ (ctx.encoder # 0) =>
                lib.param.preset = x264_preset_names[speed_to_preset(ctx.speed) + 1]
    /\ IsEncX264 =>
          /\ ctx.encoding_preset = get_preset_for_speed(ctx.speed)
          /\ (ctx.x264_ctx # 0) =>
                lib.param.preset = x264_preset_names[get_preset_for_speed(ctx.speed) + 1]

\* C25 (as claimed, for the process-wide state of the CUDA converter): under
\* any interleaving of the calls of two threads, each on its own context, the
\* process-wide initialisation completes at most once, and the device it
\* selected is not selected again.
C25_Claim ==
    lib.cuda_runs <= 1

\* C30 (as claimed): once the service has reported SERVICE_STOPPED it does
\* nothing further. It launches no stop command, posts no window message,
\* terminates no process and reports no later status, so SERVICE_STOPPED is
\* reported at most once and the reported state stays SERVICE_STOPPED, under
\* any interleaving of the control handler with the service main thread.
C30_Claim ==
    /\ lib.stopped_reports <= 1
    /\ lib.after_stopped = {}
    /\ lib.stopped_reports > 0 => lib.reported = "SERVICE_STOPPED"

====
